---- MODULE Spec2Model ----
(***************************************************************************)
(* Asset-to-entry reconciliation pipeline of the storefront repository:    *)
(* the endpoint probing loops, the filename matchers, the mapping document *)
(* (image-mapping.json) and the two executors that write an asset          *)
(* reference into a remote entry.                                          *)
(*                                                                         *)
(* Text is modelled as a sequence of one-character strings, so that        *)
(* toLowerCase, includes, split, basename and the JSON conversions are     *)
(* computed the way the scripts compute them.                              *)
(***************************************************************************)
EXTENDS Integers, Sequences, FiniteSets, TLC

VARIABLES
  \* endpoint probing loops (getProductEntries, getEntry, testUniformAPI)
  rOp, rResp, rProbed, rResult, rError, rNext, rpc,
  \* the matchers applied to one image and one record list
  mImage, mEntries, mHasKey, mAi, mFilename, mRun, mSimple, mDone,
  \* the mapping document written by map-images-simple and read back
  sFiles, sPrior, sMapping, sDoc, sLoaded, sSummary, spc,
  \* the executors (update-entries-with-assets, the full mapper's run):
  \* inputs, the remote stores, and the position and tallies of the run
  xProg, xCreds, xMapping, xMirror, xDir, xEntries, xHasKey, xAi,
  xAssets, xEntryImage, xUploads, xUploadLog,
  xRun, xpc, xGroups, xMatches, xItem, xLog, xAsset, xFetched, xLastError,
  xAttempted, xApplied, successCount, errorCount, errors, xSnapshot,
  \* the requests of a run at the grain of its awaits: the call site the
  \* async function stands at, and the requests not yet answered
  aProg, aHasKey, aItems, aItem, aSite, aTry, aWaiting, aInFlight

resolveVars == <<rOp, rResp, rProbed, rResult, rError, rNext, rpc>>
matchVars == <<mImage, mEntries, mHasKey, mAi, mFilename, mRun, mSimple,
               mDone>>
storeVars == <<sFiles, sPrior, sMapping, sDoc, sLoaded, sSummary, spc>>
runInputs == <<xProg, xCreds, xMapping, xMirror, xDir, xEntries, xHasKey,
              xAi>>
remoteVars == <<xAssets, xEntryImage, xUploads, xUploadLog>>
itemVars == <<xItem, xLog, xAsset, xFetched, xLastError>>
tallyVars == <<xAttempted, xApplied, successCount, errorCount, errors>>
runVars == <<runInputs, remoteVars, xRun, xpc, xGroups, xMatches, itemVars,
             tallyVars, xSnapshot>>
awaitVars == <<aProg, aHasKey, aItems, aItem, aSite, aTry, aWaiting, aInFlight>>
vars == <<resolveVars, matchVars, storeVars, runVars, awaitVars>>

\* ------------------------------------------------------------------ bounds

\* longest record list handed to a matcher
MaxEntries == 2

\* ------------------------------------------------------------------ text

Min(a, b) == IF a < b THEN a ELSE b

\* null / undefined of the scripts (never equal to a text, whose elements
\* are single characters)
Null == <<"<null>">>

UpperCase == <<"A","B","C","D","E","F","G","H","I","J","K","L","M","N","O","P","Q","R","S","T","U","V","W","X","Y","Z">>
LowerCase == <<"a","b","c","d","e","f","g","h","i","j","k","l","m","n","o","p","q","r","s","t","u","v","w","x","y","z">>
Digits == <<"0","1","2","3","4","5","6","7","8","9">>

IsAlnum(c) ==
  \/ \E i \in 1..Len(UpperCase) : UpperCase[i] = c \/ LowerCase[i] = c
  \/ \E i \in 1..Len(Digits) : Digits[i] = c

\* the lower-case letter of every upper-case one
LowerOf ==
  [c \in { UpperCase[i] : i \in 1..Len(UpperCase) } |->
     LowerCase[CHOOSE i \in 1..Len(UpperCase) : UpperCase[i] = c]]

toLowerCaseChar(c) == IF c \in DOMAIN LowerOf THEN LowerOf[c] ELSE c

\* String.prototype.toLowerCase
toLowerCase(s) == [i \in 1..Len(s) |-> toLowerCaseChar(s[i])]

\* String.prototype.includes
includes(s, sub) ==
  \E i \in 0..(Len(s) - Len(sub)) : SubSeq(s, i + 1, i + Len(sub)) = sub

\* String.prototype.endsWith
endsWith(s, suffix) ==
  /\ Len(suffix) <= Len(s)
  /\ SubSeq(s, Len(s) - Len(suffix) + 1, Len(s)) = suffix

\* String.prototype.substring(0, n)
substring0(s, n) == SubSeq(s, 1, Min(n, Len(s)))

\* index of the first character of s satisfying Test, Len(s) + 1 if none
FirstIndex(s, Test(_)) ==
  IF \E i \in 1..Len(s) : Test(s[i])
  THEN CHOOSE i \in 1..Len(s) : Test(s[i]) /\ \A j \in 1..(i - 1) : ~Test(s[j])
  ELSE Len(s) + 1

\* index of the last character of s equal to c, 0 if none
LastIndexOf(s, c) ==
  IF \E i \in 1..Len(s) : s[i] = c
  THEN CHOOSE i \in 1..Len(s) : s[i] = c /\ \A j \in (i + 1)..Len(s) : s[j] # c
  ELSE 0

IsSpace(c) == c \in {" ", "\t"}

\* String.prototype.split(/\s+/): cuts at every maximal run of white space;
\* a leading or trailing run leaves an empty piece, the empty text gives [""]
RECURSIVE splitWhitespace(_)
splitWhitespace(s) ==
  LET i == FirstIndex(s, IsSpace) IN
  IF i > Len(s) THEN <<s>>
  ELSE LET rest == SubSeq(s, i, Len(s))
           j == FirstIndex(rest, LAMBDA c : ~IsSpace(c))
       IN <<SubSeq(s, 1, i - 1)>> \o splitWhitespace(SubSeq(rest, j, Len(rest)))

\* String.prototype.split('-')
RECURSIVE splitHyphen(_)
splitHyphen(s) ==
  LET i == FirstIndex(s, LAMBDA c : c = "-") IN
  IF i > Len(s) THEN <<s>>
  ELSE <<SubSeq(s, 1, i - 1)>> \o splitHyphen(SubSeq(s, i + 1, Len(s)))

\* a.filter(k => k.length > n)
RECURSIVE longerThan(_, _)
longerThan(a, n) ==
  IF a = <<>> THEN <<>>
  ELSE (IF Len(Head(a)) > n THEN <<Head(a)>> ELSE <<>>) \o longerThan(Tail(a), n)

\* path.basename(p): what follows the last "/"
basename(p) == SubSeq(p, LastIndexOf(p, "/") + 1, Len(p))

\* path.extname(p): from the last "." of the base name to its end; empty when
\* the base name has no "." or only a leading one
extname(p) ==
  LET b == basename(p)
      i == LastIndexOf(b, ".")
  IN IF i <= 1 THEN <<>> ELSE SubSeq(b, i, Len(b))

\* path.basename(p, path.extname(p))
basenameNoExt(p) ==
  LET b == basename(p) IN SubSeq(b, 1, Len(b) - Len(extname(p)))

\* path.join(dir, file)
pathJoin(dir, file) == dir \o <<"/">> \o file

imageExtensions == <<<<".","j","p","g">>, <<".","j","p","e","g">>, <<".","p","n","g">>, <<".","w","e","b","p">>, <<".","g","i","f">>>>

\* the extension allow-list of getImageFiles / main
isImageFile(file) ==
  \E i \in 1..Len(imageExtensions) : endsWith(toLowerCase(file), imageExtensions[i])

\* ------------------------------------------------------------------ inputs

\* IMAGES_DIR
imagesDir == <<"/","p","u","b">>

\* directory entries (file names) the scripts may find
FileNames ==
  { <<"o","s","l","o","-","s","o","f","a",".","j","p","g">>, <<"r","u","g",".","p","n","g">>, <<"a","-","b","-","c",".","j","p","g">>, <<"B","e","r","g","e","n","-","L","o","u","n","g","e","-","C","h","a","i","r",".","J","P","G">>,
    <<"s","o","f","a","s",".","g","i","f">>, <<"o","r","c","h","a","r","d",".","w","e","b","p">>, <<"h","a","i","r",".","j","p","g">>, <<"m","y","\"","p","i","c","\\","1",".","p","n","g">> }

Entry(id, fieldName, name) == [_id |-> id, fieldsName |-> fieldName, _name |-> name]

\* remote entries of content type product: fields.name.value may be absent
\* (Null) and _name may be empty
EntryPool ==
  { Entry(<<"r","1">>, <<"O","s","l","o"," ","S","o","f","a">>, <<"o","s","l","o","-","s","o","f","a">>),
    Entry(<<"r","2">>, Null, <<"S","o","f","a">>),
    Entry(<<"r","3">>, Null, <<>>),
    Entry(<<"r","4">>, <<"a"," ","b"," ","c"," ","d"," ","e"," ","f"," ","g"," ","h"," ","i"," ","j">>, <<"t","e","n">>),
    Entry(<<"r","5">>, <<"B","e","r","g","e","n"," ","L","o","u","n","g","e"," ","C","h","a","i","r">>, <<"b","e","r","g","e","n">>),
    Entry(<<"r","6">>, <<"S","o","f","a"," ","-"," ","B","e","d">>, <<"s","o","f","a","-","b","e","d">>) }

\* ordered record lists without repetition, up to MaxEntries long
RECURSIVE ListsOver(_, _)
ListsOver(S, n) ==
  IF n = 0 THEN {<<>>}
  ELSE LET shorter == ListsOver(S, n - 1) IN
       shorter \cup { Append(l, e) : l \in { k \in shorter : Len(k) = n - 1 },
                                     e \in S }

Distinct(l) == \A i, j \in 1..Len(l) : i # j => l[i] # l[j]

\* ids of the remote entries the executors write to
EntryIds == { <<"e","1">>, <<"e","2">> }

\* a file that holds a value, and a file or directory that is absent
File(value) == [exists |-> TRUE, content |-> value]

NoFile == [exists |-> FALSE, content |-> <<>>]

\* the status or error text observed on the attempt-th request of a loop
Observed(k, what) == [attempt |-> k, outcome |-> what]

\* no status or error text: lastError = '' and messages that quote none
NoText == [attempt |-> 0, outcome |-> "none"]

\* an Error and the status or error text its message quotes
Failure(message, quoted) == [text |-> message, last |-> quoted]

NoFailure == Failure("", NoText)

\* the image reference of every entry before anything is assigned
NoImages == [e \in EntryIds |-> Null]

\* what is kept of a first run when the program is run again
NoSnapshot == [image |-> NoImages, work |-> <<>>]

EntryLists == { l \in ListsOver(EntryPool, MaxEntries) : Distinct(l) }

\* ------------------------------------------------------------------ matching

\* a || b for texts: the first that is neither absent nor empty
Or(a, b) == IF a # Null /\ a # <<>> THEN a ELSE b

\* entry.fields.name?.value || entry._name || ''
productNameOf(entry) == Or(Or(entry.fieldsName, entry._name), <<>>)

NoMatch ==
  [found |-> FALSE, entryId |-> Null, entryName |-> Null,
   num |-> 0, den |-> 1, method |-> "none"]

ImageMatch(entry, name, n, d, m) ==
  [found |-> TRUE, entryId |-> entry._id, entryName |-> name,
   num |-> n, den |-> d, method |-> m]

\* keyword test of the record-coverage direction:
\* fileNameLower.includes(keyword) ||
\*   keyword.length > 3 && fileNameLower.includes(keyword.substring(0, 3))
keywordHit(fileNameLower, keyword) ==
  \/ includes(fileNameLower, keyword)
  \/ Len(keyword) > 3 /\ includes(fileNameLower, substring0(keyword, 3))

\* number of elements of the list a that pass Test (filter(...).length)
countOf(a, Test(_)) == Cardinality({ i \in 1..Len(a) : Test(a[i]) })

\* a record-coverage threshold of one half
aboveRecordThreshold_Half(n, d) == 2 * n > d

\* confidence > 0.3 for confidence = n / d. The quotient of two small
\* integers, rounded to a double, compares with the double 0.3 as the exact
\* fraction compares with 3/10: 3/10 itself rounds to the very double that the
\* literal 0.3 denotes, and every other fraction is farther away than the
\* rounding error.
aboveRecordThreshold(n, d) == 10 * n > 3 * d

\* confidence > 0.4 for confidence = n / d
aboveImageThreshold(n, d) == 5 * n > 2 * d

\* the quotient taken the wrong way round
confidence_Inverted(score, total) == <<total, score>>

\* confidence = matchScore / productKeywords.length, kept as the fraction
\* <<numerator, denominator>>
confidence(score, total) == <<score, total>>

\* the body of matchImageByFilename's loop for one entry: the match it
\* returns, or NoMatch when the loop goes on to the next entry
scoreEntry(imagePath, entry) ==
  LET fileNameLower == toLowerCase(basenameNoExt(imagePath))
      productName == productNameOf(entry)
      productNameLower == toLowerCase(productName)
      productKeywords == splitWhitespace(productNameLower)
      matchScore == countOf(productKeywords,
                            LAMBDA k : keywordHit(fileNameLower, k))
      fileNameKeywords == longerThan(splitHyphen(fileNameLower), 2)
      reverseMatchScore == countOf(fileNameKeywords,
                                   LAMBDA k : includes(productNameLower, k))
      c1 == confidence(matchScore, Len(productKeywords))
      c2 == confidence(reverseMatchScore, Len(fileNameKeywords))
  IN
    IF matchScore > 0 /\ aboveRecordThreshold(c1[1], c1[2])
    THEN ImageMatch(entry, productName, c1[1], c1[2], "filename")
    ELSE IF /\ reverseMatchScore > 0
            /\ Len(fileNameKeywords) > 0
            /\ aboveImageThreshold(c2[1], c2[2])
    THEN ImageMatch(entry, productName, c2[1], c2[2], "filename")
    ELSE NoMatch

\* a loop that keeps the last entry that clears a threshold instead of
\* returning at the first one
RECURSIVE matchFrom_LastWins(_, _, _)
matchFrom_LastWins(imagePath, entries, i) ==
  IF i > Len(entries) THEN NoMatch
  ELSE LET later == matchFrom_LastWins(imagePath, entries, i + 1) IN
       IF later.found THEN later ELSE scoreEntry(imagePath, entries[i])

\* a loop that ranks the entries: the one with the highest confidence among
\* those that clear a threshold, the earliest of them on a tie
RECURSIVE matchFrom_HighestWins(_, _, _)
matchFrom_HighestWins(imagePath, entries, i) ==
  IF i > Len(entries) THEN NoMatch
  ELSE LET m == scoreEntry(imagePath, entries[i])
           later == matchFrom_HighestWins(imagePath, entries, i + 1)
       IN IF ~m.found THEN later
          ELSE IF later.found /\ later.num * m.den > m.num * later.den
          THEN later ELSE m

\* matchImageByFilename's loop, from the i-th entry on: returns at the first
\* entry whose body returns a match
RECURSIVE matchFrom(_, _, _)
matchFrom(imagePath, entries, i) ==
  IF i > Len(entries) THEN NoMatch
  ELSE LET m == scoreEntry(imagePath, entries[i]) IN
       IF m.found THEN m ELSE matchFrom(imagePath, entries, i + 1)

matchImageByFilename(imagePath, entries) == matchFrom(imagePath, entries, 1)

\* ---- the semantic matcher (matchImageWithAI) and the run's matching step

\* entries.map(e => e.fields.name?.value || e._name)
productNamesOf(entries) ==
  [i \in 1..Len(entries) |-> Or(entries[i].fieldsName, entries[i]._name)]

\* Array.prototype.find over indices: the first index passing Test, 0 if none
findIndex(a, Test(_)) ==
  IF \E i \in 1..Len(a) : Test(a[i])
  THEN CHOOSE i \in 1..Len(a) : Test(a[i]) /\ \A j \in 1..(i - 1) : ~Test(a[j])
  ELSE 0

\* what the completion request can bring back: the call throws (transport
\* error, malformed body), a non-success status, or a completion whose
\* trimmed content is text
AiThrow == [kind |-> "throw", text |-> <<>>]
AiNotOk == [kind |-> "notOk", text |-> <<>>]
AiContent(t) == [kind |-> "content", text |-> t]

\* no completion was requested
AiNone == [kind |-> "none", text |-> <<>>]

AiResponses(entries) ==
  {AiThrow, AiNotOk, AiContent(<<"n","o","n","e">>), AiContent(<<>>), AiContent(<<"T","a","b","l","e">>)}
    \cup { AiContent(productNamesOf(entries)[i]) : i \in 1..Len(entries) }

\* matchImageWithAI: the product name picked, or Null
matchImageWithAI(hasKey, productNames, response) ==
  IF ~hasKey THEN Null
  ELSE IF response.kind # "content" THEN Null
  ELSE
    LET matchedName == toLowerCase(response.text)
        best == findIndex(productNames,
                  LAMBDA name : \/ includes(toLowerCase(name), matchedName)
                                \/ includes(matchedName, toLowerCase(name)))
    IN IF matchedName = <<>> \/ matchedName = <<"n","o","n","e">> THEN Null
       ELSE IF best = 0 \/ productNames[best] = <<>> THEN Null
       ELSE productNames[best]

\* the fixed confidence of a semantic match, 0.8
aiConfidence == <<4, 5>>

\* a matching loop that takes the semantic matcher's null for the result
runMatch_NoFallback(hasKey, imagePath, entries, response) ==
  LET aiName == matchImageWithAI(hasKey, productNamesOf(entries), response)
      e == IF aiName = Null THEN 0
           ELSE findIndex(entries,
                  LAMBDA en : toLowerCase(Or(en.fieldsName, en._name))
                                = toLowerCase(aiName))
  IN IF e # 0
     THEN ImageMatch(entries[e], aiName, aiConfidence[1], aiConfidence[2], "ai")
     ELSE IF hasKey THEN NoMatch
     ELSE matchImageByFilename(imagePath, entries)

\* one pass of run's matching loop for one image
runMatch(hasKey, imagePath, entries, response) ==
  LET aiName == IF hasKey
                THEN matchImageWithAI(hasKey, productNamesOf(entries), response)
                ELSE Null
      e == IF aiName = Null THEN 0
           ELSE findIndex(entries,
                  LAMBDA en : toLowerCase(Or(en.fieldsName, en._name))
                                = toLowerCase(aiName))
  IN IF e # 0
     THEN ImageMatch(entries[e], aiName, aiConfidence[1], aiConfidence[2], "ai")
     ELSE matchImageByFilename(imagePath, entries)

\* ---- the mapping generator of map-images-simple

\* productEntries: product name -> entry id, in insertion order
productEntries ==
  << <<<<"A","a","r","h","u","s"," ","A","c","c","e","n","t"," ","C","h","a","i","r">>, <<"b","7","b","f","c","2","b","0","-","8","d","4","0","-","4","c","c","f","-","b","3","c","2","-","e","9","1","5","4","2","6","0","7","5","3","d">>>>,
     <<<<"T","a","m","p","e","r","e"," ","L","o","v","e","s","e","a","t">>, <<"6","3","c","9","b","2","b","7","-","f","9","4","2","-","4","2","0","e","-","a","2","e","3","-","f","5","d","d","c","6","b","b","1","4","c","b">>>>,
     <<<<"R","e","y","k","j","a","v","i","k"," ","B","o","o","k","s","h","e","l","f">>, <<"5","b","a","6","6","d","f","1","-","e","e","0","0","-","4","c","4","c","-","a","5","7","b","-","7","3","a","5","6","b","b","e","c","f","1","3">>>>,
     <<<<"T","r","o","n","d","h","e","i","m"," ","D","i","n","i","n","g"," ","T","a","b","l","e">>, <<"e","1","c","6","2","a","c","3","-","6","f","7","8","-","4","1","d","2","-","a","5","6","2","-","a","e","1","f","a","7","6","e","8","c","3","a">>>>,
     <<<<"U","p","p","s","a","l","a"," ","N","i","g","h","t","s","t","a","n","d">>, <<"f","6","0","7","1","6","f","8","-","4","0","5","a","-","4","8","e","a","-","a","9","7","5","-","d","6","f","6","e","c","1","e","4","8","f","e">>>>,
     <<<<"G","o","t","h","e","n","b","u","r","g"," ","T","h","r","e","e","-","S","e","a","t","e","r">>, <<"d","1","5","8","0","8","f","9","-","7","d","2","a","-","4","b","9","9","-","9","9","f","4","-","c","7","6","5","b","5","7","5","0","6","3","1">>>>,
     <<<<"M","a","l","m","o"," ","S","i","d","e","b","o","a","r","d">>, <<"c","3","a","4","5","f","d","9","-","1","0","7","a","-","4","b","d","a","-","b","6","b","d","-","4","8","d","c","5","7","9","b","2","6","7","f">>>>,
     <<<<"H","e","l","s","i","n","k","i"," ","D","i","n","i","n","g"," ","C","h","a","i","r">>, <<"f","3","8","5","d","0","e","3","-","4","3","2","0","-","4","f","c","4","-","b","a","d","2","-","d","e","6","b","c","2","b","5","9","7","a","2">>>>,
     <<<<"S","t","o","c","k","h","o","l","m"," ","P","l","a","t","f","o","r","m"," ","B","e","d">>, <<"7","f","3","8","4","8","d","c","-","5","6","c","5","-","4","7","3","5","-","b","d","d","c","-","9","a","c","6","e","7","4","2","4","a","f","8">>>>,
     <<<<"C","o","p","e","n","h","a","g","e","n"," ","C","o","f","f","e","e"," ","T","a","b","l","e">>, <<"8","6","2","b","b","c","7","1","-","e","0","6","d","-","4","9","d","e","-","9","5","1","6","-","3","9","a","d","e","2","7","3","7","6","a","1">>>>,
     <<<<"B","e","r","g","e","n"," ","L","o","u","n","g","e"," ","C","h","a","i","r">>, <<"5","7","5","2","9","8","7","8","-","8","7","f","5","-","4","9","5","f","-","9","7","f","b","-","8","2","1","0","d","7","e","1","c","5","f","7">>>>,
     <<<<"O","s","l","o"," ","S","e","c","t","i","o","n","a","l"," ","S","o","f","a">>, <<"1","c","5","9","b","8","e","d","-","a","7","5","d","-","4","a","9","8","-","8","1","e","1","-","d","5","6","4","b","5","d","a","1","6","c","2">>>>,
     <<<<"W","a","l","n","u","t"," ","D","i","n","i","n","g"," ","T","a","b","l","e">>, <<"5","3","6","c","a","b","9","e","-","b","a","c","b","-","4","c","2","f","-","a","6","f","0","-","2","8","9","9","4","b","e","7","5","e","2","a">>>>,
     <<<<"M","o","d","e","r","n"," ","S","e","c","t","i","o","n","a","l"," ","S","o","f","a">>, <<"0","5","0","6","f","b","a","b","-","0","8","1","f","-","4","7","f","6","-","a","b","f","2","-","f","d","b","8","e","e","c","0","9","2","4","0">>>> >>

\* the test of the generator's loop for one product name
simpleHit(fileNameLower, productName) ==
  LET productKeywords == splitWhitespace(toLowerCase(productName))
      matchScore == countOf(productKeywords,
                            LAMBDA k : keywordHit(fileNameLower, k))
  IN matchScore > 0 /\ aboveRecordThreshold(matchScore, Len(productKeywords))

\* mapping.images.forEach body: the image with its suggestion filled in
suggest(img) ==
  LET fileNameLower == toLowerCase(img.filename)
      p == findIndex(productEntries, LAMBDA pe : simpleHit(fileNameLower, pe[1]))
  IN IF p = 0 THEN img
     ELSE [img EXCEPT !.suggestedProduct = productEntries[p][1],
                      !.entryId = productEntries[p][2]]

\* an element of mapping.images before the suggestions are filled in
newMappingImage(file, size) ==
  [filename |-> file, path |-> pathJoin(imagesDir, file), size |-> size,
   suggestedProduct |-> Null, entryId |-> Null]

\* ------------------------------------------------------------------ JSON
\* JSON.stringify(value, null, 2) and JSON.parse over the values the mapping
\* document holds. A value is null, a text, a non-negative integer, an array
\* or an object (its members in insertion order).

JNull == [t |-> "null"]
JString(text) == [t |-> "string", v |-> text]
JNumber(n) == [t |-> "number", v |-> n]
JArray(elements) == [t |-> "array", v |-> elements]
JObject(members) == [t |-> "object", v |-> members]

\* a text or null as a JSON value
JText(x) == IF x = Null THEN JNull ELSE JString(x)

\* what reading a member that is not there gives
JUndefined == [t |-> "undefined"]

\* value[key]: the member's value, undefined when there is none
get(object, key) ==
  LET i == findIndex(object.v, LAMBDA m : m[1] = key) IN
  IF i = 0 THEN JUndefined ELSE object.v[i][2]

\* the decimal digits of n, as Number.prototype.toString writes an integer
RECURSIVE digitsOf(_)
digitsOf(n) ==
  IF n < 10 THEN <<Digits[n + 1]>>
  ELSE digitsOf(n \div 10) \o <<Digits[(n % 10) + 1]>>

IsDigit(c) == \E i \in 1..Len(Digits) : Digits[i] = c
digitValue(c) == (CHOOSE i \in 1..Len(Digits) : Digits[i] = c) - 1

\* a quote that escapes the double quote but not the backslash
quoteChar_NoBackslash(c) ==
  IF c = "\"" THEN <<"\\", "\"">>
  ELSE IF c = "\t" THEN <<"\\", "t">>
  ELSE <<c>>

\* the characters JSON.stringify writes for one character of a text
quoteChar(c) ==
  IF c = "\"" THEN <<"\\", "\"">>
  ELSE IF c = "\\" THEN <<"\\", "\\">>
  ELSE IF c = "\t" THEN <<"\\", "t">>
  ELSE <<c>>

RECURSIVE quoteChars(_)
quoteChars(text) ==
  IF text = <<>> THEN <<>> ELSE quoteChar(Head(text)) \o quoteChars(Tail(text))

\* a text as a JSON string literal
quote(text) == <<"\"">> \o quoteChars(text) \o <<"\"">>

\* the line break and indentation written before an item at nesting level
\* n, for an indent of 2
indent(n) == <<"\n">> \o [i \in 1..(2 * n) |-> " "]

RECURSIVE stringifyAt(_, _), stringifyItems(_, _, _)

\* the items of an array (isObject FALSE) or members of an object at nesting
\* level n, separated by commas
stringifyItems(items, isObject, n) ==
  IF items = <<>> THEN <<>>
  ELSE LET first == Head(items)
           one == IF isObject
                  THEN quote(first[1]) \o <<":", " ">> \o stringifyAt(first[2], n)
                  ELSE stringifyAt(first, n)
       IN indent(n) \o one
            \o (IF Len(items) > 1 THEN <<",">> ELSE <<>>)
            \o stringifyItems(Tail(items), isObject, n)

stringifyAt(value, n) ==
  CASE value.t = "null" -> <<"n","u","l","l">>
    [] value.t = "string" -> quote(value.v)
    [] value.t = "number" -> digitsOf(value.v)
    [] value.t = "array" ->
         IF value.v = <<>> THEN <<"[","]">>
         ELSE <<"[">> \o stringifyItems(value.v, FALSE, n + 1) \o indent(n) \o <<"]">>
    [] value.t = "object" ->
         IF value.v = <<>> THEN <<"{","}">>
         ELSE <<"{">> \o stringifyItems(value.v, TRUE, n + 1) \o indent(n) \o <<"}">>

\* JSON.stringify(value, null, 2)
stringify(value) == stringifyAt(value, 0)

\* ---- JSON.parse: a parsed piece is [val, next], next the index after it

IsJsonSpace(c) == c \in {" ", "\n", "\t", "\r"}

\* the first index from i on that is no white space
skipSpace(s, i) ==
  IF \E k \in i..Len(s) : ~IsJsonSpace(s[k])
  THEN CHOOSE k \in i..Len(s) :
         ~IsJsonSpace(s[k]) /\ \A j \in i..(k - 1) : IsJsonSpace(s[j])
  ELSE Len(s) + 1

\* the character an escape sequence \c stands for
unquoteChar(c) ==
  IF c = "t" THEN "\t" ELSE IF c = "n" THEN "\n" ELSE c

\* the text of a string literal whose opening quote is before index i
RECURSIVE parseString(_, _, _)
parseString(s, i, seen) ==
  IF s[i] = "\"" THEN [val |-> seen, next |-> i + 1]
  ELSE IF s[i] = "\\"
  THEN parseString(s, i + 2, Append(seen, unquoteChar(s[i + 1])))
  ELSE parseString(s, i + 1, Append(seen, s[i]))

RECURSIVE parseNumber(_, _, _)
parseNumber(s, i, seen) ==
  IF i <= Len(s) /\ IsDigit(s[i])
  THEN parseNumber(s, i + 1, 10 * seen + digitValue(s[i]))
  ELSE [val |-> seen, next |-> i]

RECURSIVE parseValue(_, _), parseItems(_, _, _, _)

\* the items of an array (isObject FALSE) or members of an object, i the
\* index of the first item or of the closing bracket
parseItems(s, i, isObject, seen) ==
  IF s[i] \in {"]", "}"} THEN [val |-> seen, next |-> i + 1]
  ELSE IF s[i] = "," THEN parseItems(s, skipSpace(s, i + 1), isObject, seen)
  ELSE IF isObject
  THEN LET key == parseString(s, i + 1, <<>>)
           colon == skipSpace(s, key.next)
           member == parseValue(s, skipSpace(s, colon + 1))
       IN parseItems(s, skipSpace(s, member.next), isObject,
                     Append(seen, <<key.val, member.val>>))
  ELSE LET item == parseValue(s, i)
       IN parseItems(s, skipSpace(s, item.next), isObject, Append(seen, item.val))

parseValue(s, i) ==
  CASE s[i] = "n" -> [val |-> JNull, next |-> i + 4]
    [] s[i] = "\"" ->
         LET str == parseString(s, i + 1, <<>>)
         IN [val |-> JString(str.val), next |-> str.next]
    [] IsDigit(s[i]) ->
         LET num == parseNumber(s, i, 0)
         IN [val |-> JNumber(num.val), next |-> num.next]
    [] s[i] = "[" ->
         LET items == parseItems(s, skipSpace(s, i + 1), FALSE, <<>>)
         IN [val |-> JArray(items.val), next |-> items.next]
    [] s[i] = "{" ->
         LET items == parseItems(s, skipSpace(s, i + 1), TRUE, <<>>)
         IN [val |-> JObject(items.val), next |-> items.next]

\* JSON.parse(text)
parse(text) == parseValue(text, skipSpace(text, 1)).val

\* ------------------------------------------------------------------ idle parts
\* Each specification below moves one part of the pipeline and leaves the
\* variables of the other parts at these values.

ResolveIdle ==
  /\ rOp = "none" /\ rResp = <<>> /\ rProbed = <<>> /\ rResult = 0
  /\ rError = NoFailure /\ rNext = <<>> /\ rpc = "idle"

MatchIdle ==
  /\ mImage = <<>> /\ mEntries = <<>> /\ mHasKey = FALSE /\ mAi = AiNone
  /\ mFilename = NoMatch /\ mRun = NoMatch /\ mSimple = Null /\ mDone = {}

StoreIdle ==
  /\ sFiles = <<>> /\ sPrior = Null /\ sMapping = JUndefined /\ sDoc = Null
  /\ sLoaded = JUndefined
  /\ sSummary = [printed |-> FALSE, total |-> 0, matched |-> 0, unmatched |-> 0]
  /\ spc = "idle"

RunIdle ==
  /\ xProg = "none" /\ xCreds = FALSE /\ xMapping = NoFile /\ xMirror = <<>> /\ xDir = NoFile
  /\ xEntries = <<>> /\ xHasKey = FALSE /\ xAi = <<>>
  /\ xAssets = <<>> /\ xEntryImage = NoImages /\ xUploads = 0
  /\ xUploadLog = <<>>
  /\ xRun = "none" /\ xpc = "idle" /\ xGroups = <<>> /\ xMatches = <<>>
  /\ xItem = 0 /\ xLog = <<>> /\ xAsset = Null /\ xFetched = "none"
  /\ xLastError = NoText /\ xAttempted = <<>> /\ xApplied = <<>>
  /\ successCount = 0 /\ errorCount = 0 /\ errors = <<>> /\ xSnapshot = NoSnapshot

AwaitIdle ==
  /\ aProg = "none" /\ aHasKey = FALSE /\ aItems = 0 /\ aItem = 0
  /\ aSite = "idle" /\ aTry = 0 /\ aWaiting = FALSE /\ aInFlight = {}

\* ------------------------------------------------------------------ endpoint probing
\* The loops of getProductEntries, getEntry and testUniformAPI over their
\* endpointPatterns. rResp[i] is what the remote answers on the i-th pattern.

\* number of endpoint patterns of each operation
EndpointCount == 4

\* what one request can bring back:
\*   "error"     fetch throws (transport error)
\*   "fail"      a response whose status is not a success (response.ok false)
\*   "ok"        a success status with a JSON body holding the data
\*   "badBody"   a success status whose body does not parse (response.json throws)
\*   "nullBody"  a success status whose body parses to null
Outcomes == {"error", "fail", "ok", "badBody", "nullBody"}

SuccessStatus == {"ok", "badBody", "nullBody"}

ResolveOps == {"getProductEntries", "getEntry", "testUniformAPI"}

\* for (const url of endpointPatterns): the pattern requested after those in
\* probed
nextCandidate(probed) == Len(probed) + 1

\* a loop that never leaves on a success
probeStops_NoBreak(op, outcome) == FALSE

\* the loop is left on this outcome: break after data = await response.json()
\* (getProductEntries, testUniformAPI), return data.entry || data (getEntry,
\* where a null body throws inside the try and the loop continues)
probeStops(op, outcome) ==
  \/ outcome = "ok"
  \/ outcome = "nullBody" /\ op \in {"getProductEntries", "testUniformAPI"}

\* how the operation ends when the loop is over without data:
\* getProductEntries throws, testUniformAPI exits, getEntry returns the
\* standard structure
exhausted(op) == IF op = "getEntry" THEN "fallback" ELSE "failed"

\* what is reported when the operation ends without data: the Error thrown
\* by getProductEntries and the lines printed by testUniformAPI have a fixed
\* text, the status or error text of the attempts is not kept
unreachable(op) ==
  IF op = "getProductEntries"
  THEN Failure("Failed to fetch entries: Could not connect with any endpoint pattern",
               NoText)
  ELSE Failure("Could not connect to Uniform API with any endpoint pattern",
               NoText)

ResolveInit ==
  /\ rOp \in ResolveOps
  /\ rResp \in [1..EndpointCount -> Outcomes]
  /\ rProbed = <<>>
  /\ rResult = 0
  /\ rError = NoFailure
  /\ rNext = <<>>
  /\ rpc = "probing"
  /\ MatchIdle /\ StoreIdle /\ RunIdle /\ AwaitIdle

\* one iteration of the loop of operation op
ProbeStep(op) ==
  /\ rpc = "probing"
  /\ rOp = op
  /\ LET i == nextCandidate(rProbed)
         outcome == rResp[i]
     IN /\ i \in 1..EndpointCount
        /\ rProbed' = Append(rProbed, i)
        /\ IF probeStops(op, outcome)
           THEN /\ rResult' = IF outcome = "ok" THEN i ELSE 0
                /\ rpc' = IF outcome = "ok" THEN "done" ELSE "failed"
           ELSE /\ rResult' = rResult
                /\ rpc' = IF Len(rProbed') = EndpointCount
                          THEN exhausted(op) ELSE "probing"
        /\ rError' = IF rpc' = "failed" THEN unreachable(op) ELSE rError
  /\ UNCHANGED <<rOp, rResp, rNext>>
  /\ UNCHANGED <<matchVars, storeVars, runVars, awaitVars>>

\* Test 2 of testUniformAPI, after the entries were fetched: the single
\* entry is requested once, at the URL built from the pattern that worked
\* for the entries (entriesUrl); nothing is requested when no product
\* entry came back
TestSingleEntry ==
  /\ rOp = "testUniformAPI" /\ rpc = "done"
  /\ \E hasProduct \in BOOLEAN :
       rNext' = IF hasProduct THEN <<rResult>> ELSE <<>>
  /\ rpc' = "tested"
  /\ UNCHANGED <<rOp, rResp, rProbed, rResult, rError>>
  /\ UNCHANGED <<matchVars, storeVars, runVars, awaitVars>>

ProbeProductEntries == ProbeStep("getProductEntries")
ProbeGetEntry == ProbeStep("getEntry")
ProbeTestApi == ProbeStep("testUniformAPI")

ResolveNext ==
  ProbeProductEntries \/ ProbeGetEntry \/ ProbeTestApi \/ TestSingleEntry

SpecResolve == ResolveInit /\ [][ResolveNext]_vars

\* ---- properties of endpoint probing

InOrder == \A k \in 1..Len(rProbed) : rProbed[k] = k

\* C1 as stated: the candidates are probed in order and probing stops at the
\* first candidate that returns a success status, whose result is the one
\* used; nothing after it is requested.
C1_FirstSuccessStatusWins ==
  /\ InOrder
  /\ rpc \notin {"probing", "idle"} =>
       \A j \in 1..EndpointCount :
         ( /\ rResp[j] \in SuccessStatus
           /\ \A k \in 1..(j - 1) : rResp[k] \in {"error", "fail"} )
           => rResult = j /\ rProbed = [k \in 1..j |-> k]

\* C1 amended: the candidates are probed in order; no request follows a
\* candidate that returned a success status with usable data; and the first
\* such candidate, every earlier one having failed (transport error,
\* non-success status or a body that does not parse), is the one whose result
\* is used, nothing after it being requested.
C1_FirstUsableWins ==
  /\ InOrder
  /\ \A k \in 1..(Len(rProbed) - 1) : rResp[rProbed[k]] # "ok"
  /\ rpc \notin {"probing", "idle"} =>
       \A j \in 1..EndpointCount :
         ( /\ rResp[j] = "ok"
           /\ \A k \in 1..(j - 1) : rResp[k] \in {"error", "fail", "badBody"} )
           => rResult = j /\ rProbed = [k \in 1..j |-> k]

\* candidates [A(fail), B(success), C(success)]: B's result is used and C is
\* never requested
C1_Witness ==
  /\ rpc = "done"
  /\ rResp[1] = "fail" /\ rResp[2] = "ok" /\ rResp[3] = "ok"
  /\ rResult = 2
  /\ rProbed = <<1, 2>>

\* ------------------------------------------------------------------ matchers
\* One image and one record list; each matcher is applied to them once.

ImagePaths == { pathJoin(imagesDir, f) : f \in { g \in FileNames : isImageFile(g) } }

\* the generator's product table as a list of fetched records, in the
\* table's order
productTable ==
  [p \in 1..Len(productEntries) |->
     Entry(productEntries[p][2], productEntries[p][1], productEntries[p][1])]

MatchInit ==
  /\ mImage \in ImagePaths
  /\ mEntries \in EntryLists \cup {productTable}
  /\ mHasKey \in BOOLEAN
  /\ mAi = AiNone
  /\ mFilename = NoMatch
  /\ mRun = NoMatch
  /\ mSimple = newMappingImage(basename(mImage), 0)
  /\ mDone = {}
  /\ ResolveIdle /\ StoreIdle /\ RunIdle /\ AwaitIdle

\* matchImageByFilename(imagePath, entries)
ApplyMatchByFilename ==
  /\ "filename" \notin mDone
  /\ mFilename' = matchImageByFilename(mImage, mEntries)
  /\ mDone' = mDone \cup {"filename"}
  /\ UNCHANGED <<mImage, mEntries, mHasKey, mAi, mRun, mSimple>>
  /\ UNCHANGED <<resolveVars, storeVars, runVars, awaitVars>>

\* one pass of run's matching loop, with whatever the semantic matcher answers
ApplyRunMatch ==
  /\ "run" \notin mDone
  /\ \E response \in AiResponses(mEntries) :
       /\ mAi' = IF mHasKey THEN response ELSE AiNone
       /\ mRun' = runMatch(mHasKey, mImage, mEntries, response)
  /\ mDone' = mDone \cup {"run"}
  /\ UNCHANGED <<mImage, mEntries, mHasKey, mFilename, mSimple>>
  /\ UNCHANGED <<resolveVars, storeVars, runVars, awaitVars>>

\* the mapping generator's loop body for the image
ApplySuggest ==
  /\ "simple" \notin mDone
  /\ mSimple' = suggest(mSimple)
  /\ mDone' = mDone \cup {"simple"}
  /\ UNCHANGED <<mImage, mEntries, mHasKey, mAi, mFilename, mRun>>
  /\ UNCHANGED <<resolveVars, storeVars, runVars, awaitVars>>

MatchNext == ApplyMatchByFilename \/ ApplyRunMatch \/ ApplySuggest

SpecMatch == MatchInit /\ [][MatchNext]_vars

\* ---- properties of the matchers

\* the image's file name, normalized: directory and extension stripped,
\* lower case, hyphens read as spaces
NormalizedFile(imagePath) ==
  LET f == toLowerCase(basenameNoExt(imagePath)) IN
  [i \in 1..Len(f) |-> IF f[i] = "-" THEN " " ELSE f[i]]

\* the record's display name, normalized: lower case
NormalizedName(entry) == toLowerCase(productNameOf(entry))

EqualAfterNormalization(imagePath, entry) ==
  NormalizedFile(imagePath) = NormalizedName(entry)

\* the entry clears one of the two thresholds for the image
Clears(imagePath, entry) == scoreEntry(imagePath, entry).found

IsExactKeywordMatchOf(m, entry) ==
  /\ m.found
  /\ m.entryId = entry._id
  /\ m.num = m.den
  /\ m.method = "filename"

\* C2 as stated: an image whose normalized file name equals a record's
\* display name is matched to that very record with confidence 1.0 by the
\* keyword method, wherever the record stands in the list.
C2_ExactNameAnyOrder ==
  "filename" \in mDone =>
    \A i \in 1..Len(mEntries) :
      EqualAfterNormalization(mImage, mEntries[i])
        => IsExactKeywordMatchOf(mFilename, mEntries[i])

\* C2 amended: an image whose normalized file name equals a record's display
\* name is matched to that record with confidence 1.0 by the keyword method
\* whenever no earlier record of the list clears a threshold; the match is
\* always the first record of the list that clears one.
C2_ExactNameFirstCleared ==
  "filename" \in mDone =>
    /\ \A i \in 1..Len(mEntries) :
         ( /\ EqualAfterNormalization(mImage, mEntries[i])
           /\ \A j \in 1..(i - 1) : ~Clears(mImage, mEntries[j]) )
           => IsExactKeywordMatchOf(mFilename, mEntries[i])
    /\ \A i \in 1..Len(mEntries) :
         ( /\ Clears(mImage, mEntries[i])
           /\ \A j \in 1..(i - 1) : ~Clears(mImage, mEntries[j]) )
           => mFilename.found /\ mFilename.entryId = mEntries[i]._id

\* the record equal to the file name stands second, behind a record that
\* clears no threshold, and is the one returned
C2_Witness ==
  /\ "filename" \in mDone
  /\ Len(mEntries) = 2
  /\ EqualAfterNormalization(mImage, mEntries[2])
  /\ ~Clears(mImage, mEntries[1])
  /\ IsExactKeywordMatchOf(mFilename, mEntries[2])

\* keyword sets: the maximal alphanumeric runs of the lower-cased text
RECURSIVE tokensOf(_)
tokensOf(s) ==
  LET i == FirstIndex(s, IsAlnum) IN
  IF i > Len(s) THEN {}
  ELSE LET rest == SubSeq(s, i, Len(s))
           j == FirstIndex(rest, LAMBDA c : ~IsAlnum(c))
       IN {SubSeq(rest, 1, j - 1)} \cup tokensOf(SubSeq(rest, j, Len(rest)))

KeywordsOfImage(imagePath) == tokensOf(toLowerCase(basenameNoExt(imagePath)))
KeywordsOfRecord(entry) == tokensOf(toLowerCase(productNameOf(entry)))

\* two keywords overlap when one contains the other or the image keyword
\* contains the first three letters of a longer record keyword
KeywordsOverlap(imageKeyword, recordKeyword) ==
  \/ includes(imageKeyword, recordKeyword)
  \/ includes(recordKeyword, imageKeyword)
  \/ Len(recordKeyword) > 3 /\ includes(imageKeyword, substring0(recordKeyword, 3))

ZeroOverlap(imagePath, entry) ==
  \A a \in KeywordsOfImage(imagePath), b \in KeywordsOfRecord(entry) :
    ~KeywordsOverlap(a, b)

\* C3: an image whose keyword set has zero overlap with every record's
\* keyword set is Unmatched.
C3_ZeroOverlapUnmatched ==
  "filename" \in mDone =>
    ( (\A i \in 1..Len(mEntries) : ZeroOverlap(mImage, mEntries[i]))
        => ~mFilename.found )

InRange(m) == m.found => (0 < m.num /\ m.num <= m.den)

\* C4: every match returned, by the keyword path or by the semantic path, has
\* a confidence greater than 0 and at most 1.
C4_ConfidenceInRange ==
  /\ InRange(mFilename)
  /\ InRange(mRun)

\* a semantic match and a keyword match against a record with an empty name
\* have both been returned
C4_Witness ==
  /\ mRun.found /\ mRun.method = "ai"
  /\ mFilename.found /\ mFilename.entryName = <<>>
  /\ \E i \in 1..Len(mEntries) :
       Len(splitWhitespace(toLowerCase(productNameOf(mEntries[i])))) = 1

\* the record-coverage score of the entry for the image, as a fraction
recordCoverage(imagePath, entry) ==
  LET fileNameLower == toLowerCase(basenameNoExt(imagePath))
      productKeywords == splitWhitespace(toLowerCase(productNameOf(entry)))
  IN <<countOf(productKeywords, LAMBDA k : keywordHit(fileNameLower, k)),
       Len(productKeywords)>>

\* C5: a record-coverage score of exactly 0.3 (or more) is accepted as a
\* match: the first record of the list with such a score, none before it
\* clearing a threshold, is the one returned.
C5_BoundaryInclusive ==
  "filename" \in mDone =>
    \A i \in 1..Len(mEntries) :
      LET c == recordCoverage(mImage, mEntries[i]) IN
      ( /\ c[1] > 0
        /\ 10 * c[1] >= 3 * c[2]
        /\ \A j \in 1..(i - 1) : ~Clears(mImage, mEntries[j]) )
        => mFilename.found /\ mFilename.entryId = mEntries[i]._id

\* ------------------------------------------------------------------ mapping document
\* map-images-simple writes image-mapping.json; update-entries-with-assets
\* (processMappings) and the summarize script read it back.

\* longest directory listing
MaxFiles == 2

\* directory entries readdirSync may list, with their sizes in bytes
DirPool ==
  { [name |-> <<"o","s","l","o","-","s","o","f","a",".","j","p","g">>, size |-> 20480],
    [name |-> <<"r","u","g",".","p","n","g">>, size |-> 7],
    [name |-> <<"m","y","\"","p","i","c","\\","1",".","p","n","g">>, size |-> 1048576],
    [name |-> <<"B","e","r","g","e","n","-","L","o","u","n","g","e","-","C","h","a","i","r",".","J","P","G">>, size |-> 305],
    [name |-> <<"a","-","b","-","c",".","j","p","g">>, size |-> 0],
    [name |-> <<"n","o","t","e","s",".","t","x","t">>, size |-> 12] }

DirListings == { l \in ListsOver(DirPool, MaxFiles) : Distinct(l) }

\* files.filter(file => imageExtensions.some(...)), as indices kept in order
RECURSIVE imageEntries(_)
imageEntries(files) ==
  IF files = <<>> THEN <<>>
  ELSE (IF isImageFile(Head(files).name) THEN <<Head(files)>> ELSE <<>>)
         \o imageEntries(Tail(files))

\* mapping.images after the forEach that fills the suggestions in
mappingImages(files) ==
  LET images == imageEntries(files) IN
  [i \in 1..Len(images) |-> suggest(newMappingImage(images[i].name, images[i].size))]

\* one element of mapping.images as the object it is
imageObject(img) ==
  JObject(<< <<<<"f","i","l","e","n","a","m","e">>, JString(img.filename)>>,
             <<<<"p","a","t","h">>, JString(img.path)>>,
             <<<<"s","i","z","e">>, JNumber(img.size)>>,
             <<<<"s","u","g","g","e","s","t","e","d","P","r","o","d","u","c","t">>, JText(img.suggestedProduct)>>,
             <<<<"e","n","t","r","y","I","d">>, JText(img.entryId)>> >>)

instructions ==
  JArray(<< JString(<<"1","."," ","R","e","v","i","e","w"," ","t","h","e"," ","s","u","g","g","e","s","t","e","d"," ","m","a","p","p","i","n","g","s"," ","b","e","l","o","w">>),
            JString(<<"2","."," ","U","p","d","a","t","e"," ","e","n","t","r","y","I","d"," ","f","o","r"," ","e","a","c","h"," ","i","m","a","g","e">>),
            JString(<<"3","."," ","R","u","n"," ","t","h","e"," ","u","p","l","o","a","d"," ","s","c","r","i","p","t"," ","(","c","o","m","i","n","g"," ","s","o","o","n",")">>) >>)

\* the mapping object main builds
mappingObject(files) ==
  LET imgs == mappingImages(files) IN
  JObject(<< <<<<"i","m","a","g","e","s">>, JArray([i \in 1..Len(imgs) |-> imageObject(imgs[i])])>>,
             <<<<"i","n","s","t","r","u","c","t","i","o","n","s">>, instructions>> >>)

\* a text a script tests as a condition: neither null nor empty
truthy(text) == text # Null /\ text # <<>>

\* a text-or-null member as the scripts read it
textOf(value) == IF value.t \in {"null", "undefined"} THEN Null ELSE value.v

\* data.images as the readers see it: the five fields of every element
loadedImages(data) ==
  LET arr == get(data, <<"i","m","a","g","e","s">>).v IN
  [i \in 1..Len(arr) |->
     [filename |-> textOf(get(arr[i], <<"f","i","l","e","n","a","m","e">>)),
      path |-> textOf(get(arr[i], <<"p","a","t","h">>)),
      size |-> get(arr[i], <<"s","i","z","e">>).v,
      suggestedProduct |-> textOf(get(arr[i], <<"s","u","g","g","e","s","t","e","d","P","r","o","d","u","c","t">>)),
      entryId |-> textOf(get(arr[i], <<"e","n","t","r","y","I","d">>))]]

\* a user's review of one element: the suggestion and the entry id typed in
handEdited(img, product, id) ==
  [img EXCEPT !.suggestedProduct = product, !.entryId = id]

\* what a review may type in: a product name or none, an entry id or none
HandProducts == { Null, <<"O","s","l","o"," ","S","o","f","a"," ","(","b","l","u","e",")">> }
HandIds == { Null, <<"h","a","n","d","-","p","i","c","k","e","d","-","e","n","t","r","y">> }

\* the listings an earlier run of the generator saw
PriorListings ==
  { l \in ListsOver({ f \in DirPool : f.name \in {<<"o","s","l","o","-","s","o","f","a",".","j","p","g">>, <<"r","u","g",".","p","n","g">>} }, 1) :
      Len(l) = 1 }

\* the document of an earlier run after every element was reviewed
editedDocument(files, product, id) ==
  LET imgs == mappingImages(files) IN
  JObject(<< <<<<"i","m","a","g","e","s">>,
               JArray([i \in 1..Len(imgs) |->
                         imageObject(handEdited(imgs[i], product, id))])>>,
             <<<<"i","n","s","t","r","u","c","t","i","o","n","s">>, instructions>> >>)

\* image-mapping.json as it may lie on disk before main runs: absent, or
\* an earlier document with its hand edits
PriorDocuments ==
  { Null } \cup
  { stringify(editedDocument(l, p, e)) :
      l \in PriorListings, p \in HandProducts, e \in HandIds }

\* a writer that leaves an existing file alone
writeFileSync_KeepExisting(existing, data) ==
  IF existing = Null THEN data ELSE existing

\* fs.writeFileSync(mappingFile, data): the file's content afterwards
writeFileSync(existing, data) == data

\* the three counts the summarize script prints for data.images
summaryOf(images) ==
  LET unmatched == SelectSeq(images,
                     LAMBDA img : ~(truthy(img.entryId) /\ truthy(img.suggestedProduct)))
  IN [printed |-> TRUE,
      total |-> Len(images),
      matched |-> Len(SelectSeq(images, LAMBDA i : truthy(i.entryId))),
      unmatched |-> Len(unmatched)]

StoreInit ==
  /\ sFiles \in DirListings
  /\ sPrior \in PriorDocuments
  /\ sMapping = JUndefined
  /\ sDoc = sPrior
  /\ sLoaded = JUndefined
  /\ sSummary = [printed |-> FALSE, total |-> 0, matched |-> 0, unmatched |-> 0]
  /\ spc = "scan"
  /\ ResolveIdle /\ MatchIdle /\ RunIdle /\ AwaitIdle

\* main of map-images-simple: list the images, fill the suggestions in and
\* write the document
GenerateMapping ==
  /\ spc = "scan"
  /\ sMapping' = mappingObject(sFiles)
  /\ sDoc' = writeFileSync(sDoc, stringify(sMapping'))
  /\ spc' = "saved"
  /\ UNCHANGED <<sFiles, sPrior, sLoaded, sSummary>>
  /\ UNCHANGED <<resolveVars, matchVars, runVars, awaitVars>>

\* processMappings: JSON.parse(fs.readFileSync(mappingFile))
LoadForUpdate ==
  /\ spc = "saved"
  /\ sLoaded' = parse(sDoc)
  /\ spc' = "loaded"
  /\ UNCHANGED <<sFiles, sPrior, sMapping, sDoc, sSummary>>
  /\ UNCHANGED <<resolveVars, matchVars, runVars, awaitVars>>

\* the summarize script: JSON.parse(fs.readFileSync(mappingFile)), then the
\* grouping of data.images and the three printed counts. It reads whatever
\* document is on disk: the generator's (spc = "saved"), or an earlier,
\* reviewed one before the generator runs again (spc = "scan").
LoadForSummary ==
  /\ spc \in {"scan", "saved"} /\ sDoc # Null
  /\ sLoaded' = parse(sDoc)
  /\ sSummary' = summaryOf(loadedImages(sLoaded'))
  /\ spc' = IF spc = "saved" THEN "summarized" ELSE spc
  /\ UNCHANGED <<sFiles, sPrior, sMapping, sDoc>>
  /\ UNCHANGED <<resolveVars, matchVars, runVars, awaitVars>>

StoreNext == GenerateMapping \/ LoadForUpdate \/ LoadForSummary

SpecStore == StoreInit /\ [][StoreNext]_vars

\* ---- properties of the mapping document

\* C6: a mapping produced by the generator, saved and loaded, is the same
\* structure: the same images in the same order, each with its filename,
\* path, size, suggestedProduct and entryId unchanged.
C6_RoundTrip ==
  spc \in {"loaded", "summarized"} =>
    /\ sLoaded = sMapping
    /\ loadedImages(sLoaded) = mappingImages(sFiles)

\* a loaded document with two images: one with a suggestion and an entry id,
\* one without, whose name holds a double quote and a backslash
C6_Witness ==
  /\ spc = "loaded"
  /\ Len(loadedImages(sLoaded)) = 2
  /\ \E i, j \in 1..2 :
       /\ loadedImages(sLoaded)[i].entryId # Null
       /\ loadedImages(sLoaded)[i].suggestedProduct # Null
       /\ loadedImages(sLoaded)[j].entryId = Null
       /\ includes(loadedImages(sLoaded)[j].filename, <<"\"">>)
       /\ includes(loadedImages(sLoaded)[j].filename, <<"\\">>)

\* ------------------------------------------------------------------ asset lookup
\* findAssetByFilename of update-entries-with-assets: the local mirror
\* (uniform-data/asset/*.yaml) first, then the remote asset listing.

\* s.replace(/\.[^/.]+$/, ''): the last "." and what follows it are dropped
\* when at least one character follows and none of them is a "/"
stripExtension(s) ==
  LET i == LastIndexOf(s, ".") IN
  IF i >= 1 /\ i < Len(s) /\ \A k \in (i + 1)..Len(s) : s[k] # "/"
  THEN SubSeq(s, 1, i - 1)
  ELSE s

\* s.replace(/-/g, '')
RECURSIVE removeHyphens(_)
removeHyphens(s) ==
  IF s = <<>> THEN <<>>
  ELSE (IF Head(s) = "-" THEN <<>> ELSE <<Head(s)>>) \o removeHyphens(Tail(s))

Max(a, b) == IF a > b THEN a ELSE b

\* the exact test of the local search
localExact(filenameBase, assetTitleLower) ==
  \/ filenameBase = assetTitleLower
  \/ removeHyphens(filenameBase) = removeHyphens(assetTitleLower)

\* the partial test of the local search: at least half of the parts match
localPartial(filenameBase, assetTitleLower) ==
  LET filenameParts == longerThan(splitHyphen(filenameBase), 2)
      assetParts == longerThan(splitHyphen(assetTitleLower), 2)
      matchingParts ==
        Cardinality({ i \in 1..Len(filenameParts) :
          \E j \in 1..Len(assetParts) :
            \/ includes(assetParts[j], filenameParts[i])
            \/ includes(filenameParts[i], assetParts[j]) })
  IN /\ matchingParts > 0
     /\ 2 * matchingParts >= Max(Len(filenameParts), Len(assetParts))

\* the descriptor is returned for the file name
localMatch(filename, descriptor) ==
  /\ descriptor.title # <<>>
  /\ LET filenameBase == stripExtension(toLowerCase(filename))
         assetTitleLower == stripExtension(toLowerCase(descriptor.title))
     IN localExact(filenameBase, assetTitleLower)
          \/ localPartial(filenameBase, assetTitleLower)

\* the local search: the id of the first descriptor returned, Null if none
findLocalAsset(filename, mirror) ==
  LET i == findIndex(mirror, LAMBDA d : localMatch(filename, d)) IN
  IF i = 0 THEN Null ELSE mirror[i].id

\* the test of assets.find over one remote listing
remoteMatch(filename, asset) ==
  \/ includes(toLowerCase(asset.filename), stripExtension(toLowerCase(filename)))
  \/ includes(toLowerCase(filename), toLowerCase(asset.filename))

\* assets.find(...) over one remote listing: the id found, Null if none
findRemoteAsset(filename, assets) ==
  LET i == findIndex(assets, LAMBDA a : remoteMatch(filename, a)) IN
  IF i = 0 THEN Null ELSE assets[i].id

\* ------------------------------------------------------------------ executor inputs

\* longest mapping document / directory listing an executor is run on
MaxImages == 2

\* number of payload formats updateEntryWithAsset tries
PayloadCount == 3

MappingImage(file, product, id) ==
  [filename |-> file, suggestedProduct |-> product, entryId |-> id]

\* elements of data.images a (possibly hand-edited) mapping document may hold
MappingPool ==
  { MappingImage(<<"o","s","l","o","-","s","o","f","a",".","j","p","g">>, <<"O","s","l","o"," ","S","o","f","a">>, <<"e","1">>),
    MappingImage(<<"o","s","l","o","-","s","o","f","a","-","b","l","u","e",".","p","n","g">>, <<"O","s","l","o"," ","S","o","f","a">>, <<"e","1">>),
    MappingImage(<<"r","u","g",".","p","n","g">>, Null, <<"e","2">>),
    MappingImage(<<"l","a","m","p",".","g","i","f">>, Null, Null) }

MappingDocs == { l \in ListsOver(MappingPool, MaxImages) : Distinct(l) }

Descriptor(assetId, assetTitle) == [id |-> assetId, title |-> assetTitle]

\* contents of the local mirror
Mirrors ==
  { <<>>,
    <<Descriptor(<<"a","1">>, <<"o","s","l","o","-","s","o","f","a",".","j","p","g">>)>>,
    <<Descriptor(<<"a","2">>, <<"R","u","g">>), Descriptor(<<"a","3">>, <<>>)>>,
    <<Descriptor(<<"a","1">>, <<"o","s","l","o","-","s","o","f","a",".","j","p","g">>), Descriptor(<<"a","4">>, <<"o","s","l","o","-","s","o","f","a","-","b","l","u","e",".","p","n","g">>)>> }

RemoteAsset(assetId, name) == [id |-> assetId, filename |-> name]

\* contents of the remote asset store before the run
AssetStores ==
  { <<>>,
    <<RemoteAsset(<<"a","7">>, <<"l","a","m","p",".","g","i","f">>), RemoteAsset(<<"a","8">>, <<"o","s","l","o","-","s","o","f","a","-","b","l","u","e",".","p","n","g">>)>> }

\* remote product entries the mapper may be given
RunEntryLists ==
  { <<>>,
    <<Entry(<<"e","1">>, <<"O","s","l","o"," ","S","o","f","a">>, <<"o","s","l","o">>)>>,
    <<Entry(<<"e","1">>, <<"O","s","l","o"," ","S","o","f","a">>, <<"o","s","l","o">>), Entry(<<"e","2">>, Null, <<"R","u","g">>)>> }

\* image files the mapper may find
RunFileNames == { <<"o","s","l","o","-","s","o","f","a",".","j","p","g">>, <<"o","s","l","o","-","s","o","f","a","-","b","l","u","e",".","p","n","g">>, <<"r","u","g",".","p","n","g">> }

RunDirListings == { l \in ListsOver(RunFileNames, MaxImages) : Distinct(l) }

\* ------------------------------------------------------------------ entry updater
\* processMappings of update-entries-with-assets, one step per remote request.


\* a loader that keeps every element of data.images
withEntryId_Unfiltered(images) == images

\* data.images.filter(img => img.entryId)
RECURSIVE withEntryId(_)
withEntryId(images) ==
  IF images = <<>> THEN <<>>
  ELSE (IF truthy(Head(images).entryId) THEN <<Head(images)>> ELSE <<>>)
         \o withEntryId(Tail(images))

\* entryGroups: the mappings of each entry id, keys in insertion order
RECURSIVE groupByEntry(_, _)
groupByEntry(mappings, groups) ==
  IF mappings = <<>> THEN groups
  ELSE LET m == Head(mappings)
           i == findIndex(groups, LAMBDA g : g.entryId = m.entryId)
       IN groupByEntry(Tail(mappings),
            IF i = 0
            THEN Append(groups, [entryId |-> m.entryId, images |-> <<m>>])
            ELSE [groups EXCEPT ![i].images = Append(@, m)])

Request(o, e, p, success) == [op |-> o, endpoint |-> e, payload |-> p, ok |-> success]

countOp(log, o) == Cardinality({ i \in 1..Len(log) : log[i].op = o })

\* the log of the operation in progress after one more request: the
\* requests of an earlier operation are dropped
sent(log, request) ==
  Append(SelectSeq(log, LAMBDA r : r.op = request.op), request)

\* what a request can bring back: a success status, another status, or the
\* call throws
Answers == {"ok", "status", "throw"}

\* where the loop over the groups goes after the catch block of one group
afterItemError_Abort == "fatal"

afterItemError == "next"

\* the test that makes updateEntryWithAsset throw after its loops
\* updatePayloads[payload] spreads the fetched entry's fields next to the
\* image field: format 1 is { fields: { ...entry.fields, image } }, format 2
\* is { image } and format 3 is { fields: { image } }. The one payload of
\* assignImageToEntry has the shape of format 1.
carriesFetchedFields(payload) == payload = 1

\* loops that go on to the next candidate whatever the response was
tryNextCandidate_IgnoreSuccess(success, last) == ~last

\* the two loops of updateEntryWithAsset go on to the next candidate: no
\* break on response.ok, and a candidate is left
tryNextCandidate(success, last) == ~success /\ ~last

updateFailed_OnLastError(success, lastError) == lastError # NoText

updateFailed(success, lastError) == ~success

\* the image a group is processed with
imageOf(group) == group.images[1]

\* the catch block of one group
itemError(message, quoted) ==
  /\ errorCount' = errorCount + 1
  /\ errors' = Append(errors,
       [entry |-> Or(imageOf(xGroups[xItem]).suggestedProduct, <<"U","n","k","n","o","w","n">>),
        filename |-> imageOf(xGroups[xItem]).filename,
        error |-> Failure(message, quoted)])
  /\ xpc' = afterItemError
  /\ UNCHANGED <<xAttempted, xApplied, successCount>>

\* the mapping file is read, filtered and grouped; a missing file is fatal
LoadMappings ==
  /\ xProg = "updater" /\ xpc = "start"
  /\ IF ~xMapping.exists
     THEN xpc' = "fatal" /\ xGroups' = xGroups
     ELSE /\ xpc' = "next"
          /\ xGroups' = groupByEntry(withEntryId(xMapping.content), <<>>)
  /\ UNCHANGED <<runInputs, remoteVars, xRun, xMatches, itemVars, tallyVars,
                 xSnapshot>>
  /\ UNCHANGED <<resolveVars, matchVars, storeVars, awaitVars>>

\* the loop takes the next group and searches the local mirror for its
\* first image
NextGroup ==
  /\ xProg = "updater" /\ xpc = "next" /\ xItem < Len(xGroups)
  /\ LET group == xGroups[xItem + 1]
         asset == findLocalAsset(imageOf(group).filename, xMirror)
     IN /\ xItem' = xItem + 1
        /\ xAttempted' = Append(xAttempted, group.entryId)
        /\ xLog' = <<>>
        /\ xFetched' = "none"
        /\ xLastError' = NoText
        /\ xAsset' = asset
        /\ xpc' = IF asset = Null THEN "listAssets" ELSE "getEntry"
  /\ UNCHANGED <<runInputs, remoteVars, xRun, xGroups, xMatches, xApplied,
                 successCount, errorCount, errors, xSnapshot>>
  /\ UNCHANGED <<resolveVars, matchVars, storeVars, awaitVars>>

\* one request of the remote asset search
ListAssets ==
  /\ xProg = "updater" /\ xpc = "listAssets"
  /\ \E answer \in Answers :
       LET k == countOp(xLog, "list") + 1
           found == IF answer = "ok"
                    THEN findRemoteAsset(imageOf(xGroups[xItem]).filename, xAssets)
                    ELSE Null
       IN /\ xLog' = sent(xLog, Request("list", k, 0, answer = "ok"))
          /\ IF found # Null
             THEN /\ xAsset' = found /\ xpc' = "getEntry"
                  /\ UNCHANGED tallyVars
             ELSE IF k = EndpointCount
             THEN /\ xAsset' = xAsset
                  /\ itemError("Asset not found", NoText)
             ELSE /\ xAsset' = xAsset /\ xpc' = xpc
                  /\ UNCHANGED tallyVars
  /\ UNCHANGED <<runInputs, remoteVars, xRun, xGroups, xMatches, xItem,
                 xFetched, xLastError, xSnapshot>>
  /\ UNCHANGED <<resolveVars, matchVars, storeVars, awaitVars>>

\* one request of getEntry; after the last pattern the minimal structure
\* stands in for the entry
GetEntry ==
  /\ xProg = "updater" /\ xpc = "getEntry"
  /\ \E answer \in Answers :
       LET k == countOp(xLog, "get") + 1 IN
       /\ xLog' = sent(xLog, Request("get", k, 0, answer = "ok"))
       /\ IF answer = "ok" THEN xFetched' = "fetched" /\ xpc' = "put"
          ELSE IF k = EndpointCount THEN xFetched' = "fallback" /\ xpc' = "put"
          ELSE xFetched' = xFetched /\ xpc' = xpc
  /\ UNCHANGED <<runInputs, remoteVars, xRun, xGroups, xMatches, xItem, xAsset,
                 xLastError, tallyVars, xSnapshot>>
  /\ UNCHANGED <<resolveVars, matchVars, storeVars, awaitVars>>

\* one PUT of updateEntryWithAsset: payload formats in the outer loop,
\* endpoint patterns in the inner one
PutEntry ==
  /\ xProg = "updater" /\ xpc = "put"
  /\ \E answer \in Answers :
       LET n == countOp(xLog, "put")
           payload == (n \div EndpointCount) + 1
           endpoint == (n % EndpointCount) + 1
           entryId == xGroups[xItem].entryId
           success == answer = "ok"
           lastError == IF success THEN xLastError ELSE Observed(n + 1, answer)
           last == n + 1 = PayloadCount * EndpointCount
       IN /\ xLog' = sent(xLog, Request("put", endpoint, payload, success))
          /\ xLastError' = lastError
          /\ xEntryImage' = IF success
                            THEN [xEntryImage EXCEPT ![entryId] = xAsset]
                            ELSE xEntryImage
          /\ IF tryNextCandidate(success, last)
             THEN xpc' = xpc /\ UNCHANGED tallyVars
             ELSE IF updateFailed(success, lastError)
             THEN /\ itemError("Failed to update entry", lastError)
             ELSE /\ successCount' = successCount + 1
                  /\ xApplied' = Append(xApplied,
                       [entryId |-> entryId,
                        filename |-> imageOf(xGroups[xItem]).filename,
                        asset |-> xAsset])
                  /\ xpc' = "next"
                  /\ UNCHANGED <<xAttempted, errorCount, errors>>
  /\ UNCHANGED <<runInputs, xAssets, xUploads, xUploadLog, xRun, xGroups,
                 xMatches, xItem,
                 xAsset, xFetched, xSnapshot>>
  /\ UNCHANGED <<resolveVars, matchVars, storeVars, awaitVars>>

\* the loop is over: the summary is printed
Summary ==
  /\ xProg = "updater" /\ xpc = "next" /\ xItem = Len(xGroups)
  /\ xpc' = "done"
  /\ UNCHANGED <<runInputs, remoteVars, xRun, xGroups, xMatches, itemVars,
                 tallyVars, xSnapshot>>
  /\ UNCHANGED <<resolveVars, matchVars, storeVars, awaitVars>>

\* ------------------------------------------------------------------ full mapper
\* run of the full mapper: entries, image files, matching, then one upload
\* and one assignment per match.

\* getImageFiles over a directory listing of file names
RECURSIVE getImageFiles(_)
getImageFiles(files) ==
  IF files = <<>> THEN <<>>
  ELSE (IF isImageFile(Head(files))
        THEN <<pathJoin(imagesDir, Head(files))>> ELSE <<>>)
         \o getImageFiles(Tail(files))

\* the element pushed on matches for an image
matchOf(path, m) ==
  [imagePath |-> path, entryId |-> m.entryId, entryName |-> m.entryName,
   num |-> m.num, den |-> m.den, method |-> m.method]

\* id of the n-th asset the store creates during the runs
uploadedId(n) == <<"u">> \o digitsOf(n)

\* ids the asset store may answer an upload with: a new asset, or a stored
\* asset of the same file name
uploadIds(fileName) ==
  {uploadedId(xUploads + 1)}
    \cup { xAssets[i].id : i \in { j \in 1..Len(xAssets) : xAssets[j].filename = fileName } }

\* step 1: the product entries are fetched; a failure is fatal, an empty
\* list ends the run
FetchEntries ==
  /\ xProg = "mapper" /\ xpc = "start"
  /\ \E fetched \in BOOLEAN :
       xpc' = IF ~fetched THEN "fatal"
              ELSE IF Len(xEntries) = 0 THEN "done" ELSE "images"
  /\ UNCHANGED <<runInputs, remoteVars, xRun, xGroups, xMatches, itemVars,
                 tallyVars, xSnapshot>>
  /\ UNCHANGED <<resolveVars, matchVars, storeVars, awaitVars>>

\* step 2: the image files are listed; a missing directory is fatal, an
\* empty list ends the run
ListImages ==
  /\ xProg = "mapper" /\ xpc = "images"
  /\ xpc' = IF ~xDir.exists THEN "fatal"
            ELSE IF Len(getImageFiles(xDir.content)) = 0 THEN "done"
            ELSE "match"
  /\ UNCHANGED <<runInputs, remoteVars, xRun, xGroups, xMatches, itemVars,
                 tallyVars, xSnapshot>>
  /\ UNCHANGED <<resolveVars, matchVars, storeVars, awaitVars>>

\* step 3, one image: the AI matcher when a key is set, else the file name
MatchImage ==
  /\ xProg = "mapper" /\ xpc = "match" /\ xItem < Len(getImageFiles(xDir.content))
  /\ LET imagePath == getImageFiles(xDir.content)[xItem + 1]
         response == IF xHasKey THEN xAi[xItem + 1] ELSE AiThrow
         m == runMatch(xHasKey, imagePath, xEntries, response)
     IN xMatches' = IF m.found THEN Append(xMatches, matchOf(imagePath, m))
                    ELSE xMatches
  /\ xItem' = xItem + 1
  /\ UNCHANGED <<runInputs, remoteVars, xRun, xpc, xGroups, xLog, xAsset,
                 xFetched, xLastError, tallyVars, xSnapshot>>
  /\ UNCHANGED <<resolveVars, matchVars, storeVars, awaitVars>>

\* steps 3 to 5: without a match the run ends, else the apply loop starts
EndMatching ==
  /\ xProg = "mapper" /\ xpc = "match" /\ xItem = Len(getImageFiles(xDir.content))
  /\ xpc' = IF Len(xMatches) = 0 THEN "done" ELSE "next"
  /\ xItem' = 0
  /\ UNCHANGED <<runInputs, remoteVars, xRun, xGroups, xMatches, xLog, xAsset,
                 xFetched, xLastError, tallyVars, xSnapshot>>
  /\ UNCHANGED <<resolveVars, matchVars, storeVars, awaitVars>>

\* the apply loop takes the next match
NextMatch ==
  /\ xProg = "mapper" /\ xpc = "next" /\ xItem < Len(xMatches)
  /\ xItem' = xItem + 1
  /\ xAttempted' = Append(xAttempted, xMatches[xItem + 1].entryId)
  /\ xLog' = <<>>
  /\ xAsset' = Null
  /\ xpc' = "upload"
  /\ UNCHANGED <<runInputs, remoteVars, xRun, xGroups, xMatches, xFetched,
                 xLastError, xApplied, successCount, errorCount, errors,
                 xSnapshot>>
  /\ UNCHANGED <<resolveVars, matchVars, storeVars, awaitVars>>

\* uploadImage: one POST; anything but a success status throws
UploadImage ==
  /\ xProg = "mapper" /\ xpc = "upload"
  /\ \E answer \in Answers :
       LET fileName == basename(xMatches[xItem].imagePath) IN
       /\ xLog' = Append(xLog, Request("upload", 1, 0, answer = "ok"))
       /\ xUploadLog' = Append(xUploadLog, fileName)
       /\ IF answer = "ok"
          THEN \E assetId \in uploadIds(fileName) :
                 LET new == assetId = uploadedId(xUploads + 1) IN
                 /\ xAsset' = assetId
                 /\ xAssets' = IF new
                               THEN Append(xAssets, RemoteAsset(assetId, fileName))
                               ELSE xAssets
                 /\ xUploads' = IF new THEN xUploads + 1 ELSE xUploads
                 /\ xpc' = "assignGet"
          ELSE /\ xpc' = afterItemError
               /\ UNCHANGED <<xAsset, xAssets, xUploads>>
  /\ UNCHANGED <<runInputs, xEntryImage, xRun, xGroups, xMatches, xItem,
                 xFetched, xLastError, tallyVars, xSnapshot>>
  /\ UNCHANGED <<resolveVars, matchVars, storeVars, awaitVars>>

\* assignImageToEntry, the GET: anything but a success status throws
AssignGet ==
  /\ xProg = "mapper" /\ xpc = "assignGet"
  /\ \E answer \in Answers :
       /\ xLog' = Append(xLog, Request("get", 1, 0, answer = "ok"))
       /\ xpc' = IF answer = "ok" THEN "assignPut" ELSE afterItemError
  /\ UNCHANGED <<runInputs, remoteVars, xRun, xGroups, xMatches, xItem, xAsset,
                 xFetched, xLastError, tallyVars, xSnapshot>>
  /\ UNCHANGED <<resolveVars, matchVars, storeVars, awaitVars>>

\* assignImageToEntry, the PUT: anything but a success status throws
AssignPut ==
  /\ xProg = "mapper" /\ xpc = "assignPut"
  /\ \E answer \in Answers :
       LET match == xMatches[xItem] IN
       /\ xLog' = Append(xLog, Request("put", 1, 1, answer = "ok"))
       /\ IF answer = "ok"
          THEN /\ xEntryImage' = [xEntryImage EXCEPT ![match.entryId] = xAsset]
               /\ xApplied' = Append(xApplied,
                    [entryId |-> match.entryId,
                     filename |-> basename(match.imagePath),
                     asset |-> xAsset])
               /\ xpc' = "next"
          ELSE /\ xpc' = afterItemError
               /\ UNCHANGED <<xEntryImage, xApplied>>
  /\ UNCHANGED <<runInputs, xAssets, xUploads, xUploadLog, xRun, xGroups,
                 xMatches, xItem,
                 xAsset, xFetched, xLastError, xAttempted, successCount,
                 errorCount, errors, xSnapshot>>
  /\ UNCHANGED <<resolveVars, matchVars, storeVars, awaitVars>>

\* the apply loop is over
Complete ==
  /\ xProg = "mapper" /\ xpc = "next" /\ xItem = Len(xMatches)
  /\ xpc' = "done"
  /\ UNCHANGED <<runInputs, remoteVars, xRun, xGroups, xMatches, itemVars,
                 tallyVars, xSnapshot>>
  /\ UNCHANGED <<resolveVars, matchVars, storeVars, awaitVars>>

\* ------------------------------------------------------------------ runs
\* A program is run on its inputs and, once it has ended normally with
\* every item applied, run a second time on the same inputs against the
\* stores the first run left. The answers of the completion service to the
\* images are an input, the same in both runs.

\* answers of the completion service that differ in the match they lead to:
\* no usable answer, or the name of one of the products
RunAiResponses(entries) ==
  {AiThrow} \cup { AiContent(productNamesOf(entries)[i]) : i \in 1..Len(entries) }

\* the answers to the image files of a directory
AiAnswers(dir, entries) ==
  { l \in ListsOver(RunAiResponses(entries), MaxImages) :
      Len(l) = Len(getImageFiles(dir.content)) }

\* the items of the apply loop of the program
workOf(prog, groups, matches) == IF prog = "updater" THEN groups ELSE matches

\* the constructor of the program: UNIFORM_API_KEY and UNIFORM_PROJECT_ID
\* are required, the Error thrown without them ends the process
Construct ==
  /\ xpc = "new"
  /\ xpc' = IF xCreds THEN "start" ELSE "fatal"
  /\ UNCHANGED <<runInputs, remoteVars, xRun, xGroups, xMatches, itemVars,
                 tallyVars, xSnapshot>>
  /\ UNCHANGED <<resolveVars, matchVars, storeVars, awaitVars>>

RunInit ==
  /\ xProg \in {"updater", "mapper"}
  /\ xCreds \in BOOLEAN
  /\ IF xProg = "updater"
     THEN /\ xMapping \in { File(d) : d \in MappingDocs } \cup {NoFile}
          /\ xMirror \in Mirrors
          /\ xDir = NoFile /\ xEntries = <<>> /\ xHasKey = FALSE
          /\ xAi = <<>>
     ELSE /\ xMapping \in {NoFile, File(<<>>)} /\ xMirror = <<>>
          /\ xDir \in { File(d) : d \in RunDirListings } \cup {NoFile}
          /\ xEntries \in RunEntryLists
          /\ xHasKey \in BOOLEAN
          /\ xAi \in IF xHasKey THEN AiAnswers(xDir, xEntries) ELSE {<<>>}
  /\ xAssets \in AssetStores
  /\ xEntryImage = NoImages
  /\ xUploads = 0
  /\ xUploadLog = <<>>
  /\ xRun = "first" /\ xpc = "new"
  /\ xGroups = <<>> /\ xMatches = <<>>
  /\ xItem = 0 /\ xLog = <<>> /\ xAsset = Null /\ xFetched = "none"
  /\ xLastError = NoText
  /\ xAttempted = <<>> /\ xApplied = <<>>
  /\ successCount = 0 /\ errorCount = 0 /\ errors = <<>>
  /\ xSnapshot = NoSnapshot
  /\ ResolveIdle /\ MatchIdle /\ StoreIdle /\ AwaitIdle

\* the program is started again
RunAgain ==
  /\ xRun = "first" /\ xpc = "done"
  /\ Len(xApplied) = Len(workOf(xProg, xGroups, xMatches))
  /\ xRun' = "second" /\ xpc' = "new"
  /\ xSnapshot' = [image |-> xEntryImage,
                   work |-> workOf(xProg, xGroups, xMatches)]
  /\ xGroups' = <<>> /\ xMatches' = <<>>
  /\ xItem' = 0 /\ xLog' = <<>> /\ xAsset' = Null /\ xFetched' = "none"
  /\ xLastError' = NoText
  /\ xAttempted' = <<>> /\ xApplied' = <<>>
  /\ successCount' = 0 /\ errorCount' = 0 /\ errors' = <<>>
  /\ UNCHANGED <<runInputs, remoteVars>>
  /\ UNCHANGED <<resolveVars, matchVars, storeVars, awaitVars>>

UpdaterNext ==
  LoadMappings \/ NextGroup \/ ListAssets \/ GetEntry \/ PutEntry \/ Summary

MapperNext ==
  \/ FetchEntries \/ ListImages \/ MatchImage \/ EndMatching
  \/ NextMatch \/ UploadImage \/ AssignGet \/ AssignPut \/ Complete

RunNext == Construct \/ UpdaterNext \/ MapperNext \/ RunAgain

SpecRun == RunInit /\ [][RunNext]_vars

\* ---- properties of the runs

\* the record ids of the items of the apply loop, in order
workIds ==
  LET work == workOf(xProg, xGroups, xMatches) IN
  [i \in 1..Len(work) |-> work[i].entryId]

\* the file names the mapping of the run lists for a record, in order: the
\* images of the mapping document, or the matches of the mapper
listedFor(entryId) ==
  IF xProg = "updater"
  THEN LET listed == SelectSeq(withEntryId(xMapping.content),
                               LAMBDA img : img.entryId = entryId)
       IN [i \in 1..Len(listed) |-> listed[i].filename]
  ELSE LET listed == SelectSeq(xMatches, LAMBDA m : m.entryId = entryId)
       IN [i \in 1..Len(listed) |-> basename(listed[i].imagePath)]

\* the assignments of the run that wrote the record
appliedTo(entryId) == { i \in 1..Len(xApplied) : xApplied[i].entryId = entryId }

\* C7: when the same mapping is applied a second time, every record the
\* first run assigned references the same asset id after the second run as
\* after the first.
C7_SecondApplySameAsset ==
  (/\ xRun = "second" /\ xpc = "done"
   /\ workOf(xProg, xGroups, xMatches) = xSnapshot.work)
    => \A e \in EntryIds :
         xSnapshot.image[e] # Null => xEntryImage[e] = xSnapshot.image[e]

\* every PUT of the first two payload formats, on every endpoint pattern,
\* was answered without success
FirstTwoShapesFailed ==
  \A p \in 1..2, e \in 1..EndpointCount :
    \E i \in 1..Len(xLog) : xLog[i] = Request("put", e, p, FALSE)

\* a PUT of the third payload format was answered with success
ThirdShapeSucceeded ==
  \E i \in 1..Len(xLog) :
    xLog[i].op = "put" /\ xLog[i].payload = 3 /\ xLog[i].ok

\* C8: an item whose update failed for the first two payload formats on
\* every endpoint and succeeded with the third is counted in successCount
\* and has no entry in errors.
C8_ThirdShapeCountsAsSuccess ==
  (xProg = "updater" /\ FirstTwoShapesFailed /\ ThirdShapeSucceeded)
    => /\ xpc \in {"next", "done"}
       /\ successCount + errorCount = xItem
       /\ successCount = Len(xApplied) /\ successCount >= 1
       /\ xApplied[Len(xApplied)].entryId = xGroups[xItem].entryId
       /\ \A i \in 1..Len(errors) :
            errors[i].filename # imageOf(xGroups[xItem]).filename

C8_Witness ==
  /\ xProg = "updater" /\ FirstTwoShapesFailed /\ ThirdShapeSucceeded
  /\ xLastError # NoText
  /\ successCount = 1 /\ errorCount = 0

\* C9: a failure while one record is processed never ends the run: the run
\* is only ever aborted before the first record is taken, and a run that
\* ends has attempted every record of its mapping, in order.
C9_FailureDoesNotAbortBatch ==
  /\ xpc = "fatal" => xAttempted = <<>>
  /\ xpc = "done" => xAttempted = workIds

C9_Witness ==
  /\ xProg = "updater" /\ xpc = "done"
  /\ Len(xGroups) = 2 /\ Len(xAttempted) = 2
  /\ errorCount = 1 /\ errors[1].filename = imageOf(xGroups[1]).filename
  /\ successCount = 1 /\ xApplied[1].entryId = xGroups[2].entryId

\* C10: in one run at most one assignment is made per record id, and it
\* uses the first image the mapping lists for that record.
C10_OneImagePerRecord ==
  \A e \in EntryIds :
    /\ Cardinality(appliedTo(e)) <= 1
    /\ \A i \in appliedTo(e) : xApplied[i].filename = listedFor(e)[1]

\* ---- properties of the reported failures

\* the status or error text observed on the last request of the probing
lastObserved == Observed(Len(rProbed), rResp[rProbed[Len(rProbed)]])

\* C11: an operation reports that no endpoint could be reached only after
\* every candidate was requested and failed, and what it reports carries the
\* status or error text observed on the last failed attempt.
C11_UnreachableCarriesLastError ==
  rpc = "failed" =>
    /\ rProbed = [k \in 1..EndpointCount |-> k]
    /\ \A k \in 1..EndpointCount : rResp[k] \in {"error", "fail", "badBody"}
    /\ rError.last = lastObserved

\* ---- properties of the fatal conditions

\* an upload or an entry update was requested in the run
mutationRequested ==
  \/ xAttempted # <<>>
  \/ \E i \in 1..Len(xLog) : xLog[i].op \in {"upload", "put"}

\* C12: when the credentials are missing or the images directory does not
\* exist, the mapper's run ends aborted (non-zero exit), never normally,
\* and no upload or entry update is requested in it, whatever the entries
\* listing returns.
C12_FatalWithoutMutation ==
  (xProg = "mapper" /\ (~xCreds \/ ~xDir.exists))
    => /\ xpc # "done"
       /\ ~mutationRequested

\* ---- properties of the asset resolution

\* the remote asset listing is only requested for an image no local
\* descriptor matches
LocalMirrorFirst ==
  (xProg = "updater" /\ \E i \in 1..Len(xLog) : xLog[i].op = "list")
    => findLocalAsset(imageOf(xGroups[xItem]).filename, xMirror) = Null

\* C13: the local mirror is consulted first, the remote listing only when
\* no local descriptor matches, and an item for which neither finds an
\* asset is not failed for that reason: the file is uploaded instead.
C13_UploadWhenNoAssetFound ==
  /\ LocalMirrorFirst
  /\ xProg = "updater" =>
       \A i \in 1..Len(errors) : errors[i].error.text # "Asset not found"

\* ---- properties of the uploads

\* C14: over all the runs, an upload is requested at most once for a file
\* name; a later use of the image references the asset that exists.
C14_UploadOncePerFile ==
  \A i, j \in 1..Len(xUploadLog) : i # j => xUploadLog[i] # xUploadLog[j]

\* ---- properties of the mapping document as a checkpoint

\* the record id and file name of the k-th item of the apply loop
itemOf(k) ==
  IF xProg = "updater"
  THEN [entryId |-> xGroups[k].entryId,
        filename |-> imageOf(xGroups[k]).filename]
  ELSE [entryId |-> xMatches[k].entryId,
        filename |-> basename(xMatches[k].imagePath)]

\* the mapping document exists and lists the file name for the record id
storedMapping(item) ==
  /\ xMapping.exists
  /\ \E i \in 1..Len(xMapping.content) :
       /\ xMapping.content[i].filename = item.filename
       /\ xMapping.content[i].entryId = item.entryId

\* C15: no upload and no entry update is requested for an item unless the
\* mapping document holds it: what is applied is what the document lists.
C15_MappingIsCheckpoint ==
  \A k \in 1..Len(xAttempted) : storedMapping(itemOf(k))

\* ---- properties of the fetch before the update

\* number of endpoints the program requests the entry from before an update
fetchCandidates == IF xProg = "updater" THEN EndpointCount ELSE 1

\* the last request was the fetch of the entry on the last candidate, and
\* the fetch failed on every candidate
fetchFailedEverywhere ==
  /\ xLog # <<>>
  /\ xLog[Len(xLog)].op = "get"
  /\ countOp(xLog, "get") = fetchCandidates
  /\ \A i \in 1..Len(xLog) : xLog[i].op = "get" => ~xLog[i].ok

\* C16: when the fetch of the record before the update has failed on every
\* candidate endpoint, the item is not failed for it: the update is
\* attempted next.
C16_FetchFailureProceeds ==
  fetchFailedEverywhere => xpc \in {"put", "assignPut"}

\* ---- properties of the semantic matcher's failures

\* the semantic matcher was not asked (no key), failed (the request threw,
\* a non-success status, a body that could not be used) or answered "none"
matcherGaveNothing ==
  \/ ~mHasKey
  \/ mAi.kind \in {"throw", "notOk"}
  \/ mAi.kind = "content" /\ toLowerCase(mAi.text) = <<"n","o","n","e">>

\* C17: when the semantic matcher is not configured, fails or answers
\* "none", the pass of the matching loop ends without an error with the
\* result of the keyword method: a keyword match, or no match.
C17_MatcherFailureFallsThrough ==
  ("run" \in mDone /\ matcherGaveNothing)
    => /\ mRun = matchImageByFilename(mImage, mEntries)
       /\ mRun.method \in {"filename", "none"}

C17_Witness ==
  /\ "run" \in mDone /\ mHasKey /\ mAi.kind = "throw"
  /\ mRun.found /\ mRun.method = "filename"

\* ---- properties of the documented confidence levels

\* the confidence of the match is at least 0.4
atLeastFourTenths(match) == 5 * match.num >= 2 * match.den

\* C18: no match is returned with a confidence below 0.4, by the keyword
\* method or by a pass of run's matching loop.
C18_NoMatchBelowFourTenths ==
  /\ ("filename" \in mDone /\ mFilename.found) => atLeastFourTenths(mFilename)
  /\ ("run" \in mDone /\ mRun.found) => atLeastFourTenths(mRun)

\* ---- properties of saving the mapping

\* the elements of a document on disk
storedImages(doc) == loadedImages(parse(doc))

\* C19: saving the mapping is a full overwrite: once main of the generator
\* has run, the stored document is the one built from the current image
\* listing and the record table alone, so every suggestedProduct and entryId
\* in it is the generator's own, whatever document lay there before.
C19_SaveIsFullOverwrite ==
  spc # "scan" =>
    /\ sDoc = stringify(mappingObject(sFiles))
    /\ storedImages(sDoc) = mappingImages(sFiles)

\* the generator ran over a document in which the same file carried a
\* hand-picked product and entry id, and neither is in the new document
C19_Witness ==
  /\ spc = "saved"
  /\ sPrior # Null
  /\ \E i \in 1..Len(storedImages(sDoc)), j \in 1..Len(storedImages(sPrior)) :
       /\ storedImages(sDoc)[i].filename = storedImages(sPrior)[j].filename
       /\ storedImages(sPrior)[j].entryId = <<"h","a","n","d","-","p","i","c","k","e","d","-","e","n","t","r","y">>
       /\ storedImages(sPrior)[j].suggestedProduct = <<"O","s","l","o"," ","S","o","f","a"," ","(","b","l","u","e",")">>
       /\ storedImages(sDoc)[i].entryId # storedImages(sPrior)[j].entryId
       /\ storedImages(sDoc)[i].suggestedProduct # storedImages(sPrior)[j].suggestedProduct

\* ---- properties of the updater's choice of entries

\* the entry ids the run has worked for so far: those of the groups taken,
\* and that of the group whose requests are in flight
targetsOfRun ==
  { xAttempted[k] : k \in 1..Len(xAttempted) } \cup
  (IF xLog # <<>> THEN { xGroups[xItem].entryId } ELSE {})

\* the non-null entry ids of the loaded mapping
mappedIds ==
  { xMapping.content[i].entryId : i \in 1..Len(xMapping.content) } \ { Null }

\* C20: the updater acts only on mapping elements with a non-null entry id:
\* every asset lookup, entry fetch and entry update of a run is made for an
\* entry id that is a non-null entryId of the loaded mapping, for an image
\* that carries that id, and a mapping whose elements all have a null
\* entryId causes no request and no change of an entry.
C20_OnlyEntriesWithRecordId ==
  xProg = "updater" =>
    /\ targetsOfRun \subseteq mappedIds
    /\ xLog # <<>> =>
         /\ imageOf(xGroups[xItem]).entryId = xGroups[xItem].entryId
         /\ imageOf(xGroups[xItem]).entryId # Null
    /\ \A e \in EntryIds : xEntryImage[e] # Null => e \in mappedIds
    /\ mappedIds = {} => xLog = <<>> /\ xAttempted = <<>>

\* a finished run over a mapping that holds an element without an entry id
\* next to one with an entry id, whose entry was updated
C20_Witness ==
  /\ xProg = "updater" /\ xpc = "done"
  /\ \E i, j \in 1..Len(xMapping.content) :
       /\ xMapping.content[i].entryId = Null
       /\ xMapping.content[j].entryId # Null
       /\ xEntryImage[xMapping.content[j].entryId] # Null
  /\ Len(xAttempted) = 1
  /\ successCount = 1

\* ---- properties of the update of one entry

\* the PUT requests sent so far for the entry in progress
puts == SelectSeq(xLog, LAMBDA r : r.op = "put")

\* C21: within the update of one entry the PUT requests go through the
\* candidates in order (every endpoint for the first payload shape, then for
\* the next); the first one answered with a success status makes the update
\* a success, and no PUT follows it: a successful PUT is the last of its
\* entry, the entry is recorded as applied, and no entry is taken twice in
\* one run.
C21_FirstSuccessEndsUpdate ==
  xProg = "updater" =>
    /\ \A i \in 1..Len(puts) :
         /\ puts[i].endpoint = ((i - 1) % EndpointCount) + 1
         /\ puts[i].payload = ((i - 1) \div EndpointCount) + 1
         /\ puts[i].ok =>
              /\ i = Len(puts)
              /\ xpc # "put"
              /\ xApplied # <<>>
              /\ xApplied[Len(xApplied)].entryId = xAttempted[Len(xAttempted)]
    /\ \A i, j \in 1..Len(xAttempted) : i # j => xAttempted[i] # xAttempted[j]

\* an update that succeeded on the second payload shape after every
\* endpoint refused the first
C21_Witness ==
  /\ xProg = "updater"
  /\ Len(puts) > EndpointCount
  /\ puts[Len(puts)].ok
  /\ \A i \in 1..(Len(puts) - 1) : ~puts[i].ok

\* ---- properties of the order of the keyword matchers

\* the generator's coverage of a product name by the file name, as a fraction
simpleCoverage(fileNameLower, productName) ==
  LET productKeywords == splitWhitespace(toLowerCase(productName)) IN
  <<countOf(productKeywords, LAMBDA k : keywordHit(fileNameLower, k)),
    Len(productKeywords)>>

\* the fraction a is strictly greater than the fraction b
Higher(a, b) == a[1] * b[2] > b[1] * a[2]

\* C22: keyword matching returns the first record, in the order of the
\* record list, that clears a threshold, with the score that record has;
\* records behind it are not looked at, whatever their score. This holds for
\* matchImageByFilename over the fetched records and for the generator over
\* its own product table.
C22_FirstAboveThresholdWins ==
  /\ "filename" \in mDone =>
       \A i \in 1..Len(mEntries) :
         ( /\ Clears(mImage, mEntries[i])
           /\ \A j \in 1..(i - 1) : ~Clears(mImage, mEntries[j]) )
           => mFilename = scoreEntry(mImage, mEntries[i])
  /\ "simple" \in mDone =>
       \A p \in 1..Len(productEntries) :
         ( /\ simpleHit(toLowerCase(mSimple.filename), productEntries[p][1])
           /\ \A q \in 1..(p - 1) :
                ~simpleHit(toLowerCase(mSimple.filename), productEntries[q][1]) )
           => /\ mSimple.suggestedProduct = productEntries[p][1]
              /\ mSimple.entryId = productEntries[p][2]

\* both matchers have returned a record that stands before one with a
\* strictly higher score
C22_Witness ==
  /\ {"filename", "simple"} \subseteq mDone
  /\ Len(mEntries) = 2
  /\ Clears(mImage, mEntries[1]) /\ Clears(mImage, mEntries[2])
  /\ LET first == scoreEntry(mImage, mEntries[1])
         second == scoreEntry(mImage, mEntries[2])
     IN Higher(<<second.num, second.den>>, <<first.num, first.den>>)
  /\ mFilename.entryId = mEntries[1]._id
  /\ \E p, q \in 1..Len(productEntries) :
       /\ p < q
       /\ mSimple.suggestedProduct = productEntries[p][1]
       /\ Higher(simpleCoverage(toLowerCase(mSimple.filename), productEntries[q][1]),
                 simpleCoverage(toLowerCase(mSimple.filename), productEntries[p][1]))

\* ---- properties of the keyword thresholds

\* the image-coverage score of the entry for the image, as a fraction: the
\* file name's hyphen-separated keywords of more than two characters that
\* the record's name contains
imageCoverage(imagePath, entry) ==
  LET fileNameKeywords == longerThan(splitHyphen(toLowerCase(basenameNoExt(imagePath))), 2)
      productNameLower == toLowerCase(productNameOf(entry))
  IN <<countOf(fileNameKeywords, LAMBDA k : includes(productNameLower, k)),
       Len(fileNameKeywords)>>

\* the fraction c is greater than num / den (a fraction 0 / 0 is not)
Exceeds(c, num, den) == den * c[1] > num * c[2]

\* the entry is a candidate: one of its two scores exceeds its threshold
IsCandidate(imagePath, entry) ==
  \/ Exceeds(recordCoverage(imagePath, entry), 3, 10)
  \/ Exceeds(imageCoverage(imagePath, entry), 4, 10)

namesRecord(response, entries) ==
  /\ response.kind = "content"
  /\ response.text # <<>>
  /\ \E i \in 1..Len(entries) : response.text = productNamesOf(entries)[i]

\* C24: with a semantic matcher configured, whenever it answers with one of
\* the record names the keyword method is not used for the image: the
\* result is a match tagged as semantic ('ai') with confidence exactly 0.8.
C24_SemanticAnswerShortCircuits ==
  ("run" \in mDone /\ mHasKey /\ namesRecord(mAi, mEntries)) =>
    /\ mRun.found
    /\ mRun.method = "ai"
    /\ 5 * mRun.num = 4 * mRun.den

\* ---- properties of repeated endpoint resolution

\* C25: endpoint resolution is never memoized: every operation sends its
\* first request to the first candidate of its list, whichever candidate
\* answered an earlier operation of the same run; so does the fetch of a
\* single entry that follows the fetch of the entries.
C25_EveryOperationStartsAtFirst ==
  /\ rProbed # <<>> => rProbed[1] = 1
  /\ rNext # <<>> => rNext[1] = 1

\* ---- properties of the update payload

\* the fetch before the update brought the entry back
fetchSucceeded == xProg = "updater" => xFetched = "fetched"

\* C26: when the fetch before the update succeeded, the payload the remote
\* accepts carries every fetched field unchanged next to the image field
\* that holds the asset reference.
C26_AcceptedPayloadKeepsFields ==
  fetchSucceeded =>
    \A i \in 1..Len(xLog) :
      (xLog[i].op = "put" /\ xLog[i].ok) => carriesFetchedFields(xLog[i].payload)

\* ------------------------------------------------------------------ awaits
\* The runs of the updater (processMappings) and of the full mapper (run)
\* at the grain of their fetch calls: a request is sent, the async function
\* is suspended at its await, the response (or the error) arrives and the
\* function goes on. aSite is the fetch the function stands at, aTry the
\* number of requests of the current loop already answered.

\* the fetch calls
RequestSites ==
  {"entries", "ai", "list", "get", "put", "upload", "assignGet", "assignPut"}

\* the positions between two items of a loop, and the ends of a run
LoopHeads == {"groupNext", "matchNext", "applyNext"}

\* how many requests the loop around the call may send
candidatesOf(site) ==
  IF site \in {"entries", "list", "get"} THEN EndpointCount
  ELSE IF site = "put" THEN PayloadCount * EndpointCount
  ELSE 1

\* a call whose promise is not awaited
awaits_NotPut(site) == site # "put"

\* the call is awaited: const response = await fetch(...)
awaits(site) == TRUE

\* where the function stands after the answer to request number n of the
\* loop at site: the site and the number of answered requests there
afterAnswer(site, n, answer, found) ==
  LET ok == answer = "ok"
      last == n = candidatesOf(site)
      again == [site |-> site, try |-> n]
      at(next) == [site |-> next, try |-> 0]
  IN CASE site = "entries" ->
            IF ok THEN at("matchNext") ELSE IF last THEN at("fatal") ELSE again
       [] site = "ai" -> at("matchNext")
       [] site = "list" ->
            IF ok /\ found THEN at("get")
            ELSE IF last THEN at("groupNext") ELSE again
       [] site = "get" -> IF ok \/ last THEN at("put") ELSE again
       [] site = "put" -> IF ok \/ last THEN at("groupNext") ELSE again
       [] site = "upload" -> IF ok THEN at("assignGet") ELSE at("applyNext")
       [] site = "assignGet" -> IF ok THEN at("assignPut") ELSE at("applyNext")
       [] OTHER -> at("applyNext")

AwaitInit ==
  /\ aProg \in {"updater", "mapper"}
  /\ aHasKey \in BOOLEAN
  /\ aItems \in 0..MaxImages
  /\ aItem = 0
  /\ aSite = IF aProg = "updater" THEN "groupNext" ELSE "entries"
  /\ aTry = 0
  /\ aWaiting = FALSE
  /\ aInFlight = {}
  /\ ResolveIdle /\ MatchIdle /\ StoreIdle /\ RunIdle

\* the head of a loop: the next group (its asset is in the local mirror or
\* must be searched remotely), the next image to match (with the semantic
\* matcher when there is a key), the next match to apply; the matching loop
\* is followed by the apply loop
TakeItem ==
  /\ ~aWaiting /\ aSite \in LoopHeads
  /\ aTry' = 0
  /\ IF aItem < aItems
     THEN /\ aItem' = aItem + 1
          /\ \E inMirror \in BOOLEAN :
               aSite' = CASE aSite = "groupNext" ->
                               IF inMirror THEN "get" ELSE "list"
                          [] aSite = "matchNext" ->
                               IF aHasKey THEN "ai" ELSE "matchNext"
                          [] OTHER -> "upload"
     ELSE /\ aItem' = IF aSite = "matchNext" THEN 0 ELSE aItem
          /\ aSite' = IF aSite = "matchNext" THEN "applyNext" ELSE "done"
  /\ UNCHANGED <<aProg, aHasKey, aItems, aWaiting, aInFlight>>
  /\ UNCHANGED <<resolveVars, matchVars, storeVars, runVars>>

\* fetch(...) is called: the request leaves; an awaited call suspends the
\* function, a call that is not awaited lets it go on with a promise in
\* place of the response, which the code treats like a failure
SendRequest ==
  /\ ~aWaiting /\ aSite \in RequestSites
  /\ aInFlight' = aInFlight \cup {[site |-> aSite, item |-> aItem, try |-> aTry + 1]}
  /\ IF awaits(aSite)
     THEN aWaiting' = TRUE /\ UNCHANGED <<aSite, aTry>>
     ELSE LET next == afterAnswer(aSite, aTry + 1, "throw", FALSE) IN
          /\ aWaiting' = FALSE
          /\ aSite' = next.site
          /\ aTry' = next.try
  /\ UNCHANGED <<aProg, aHasKey, aItems, aItem>>
  /\ UNCHANGED <<resolveVars, matchVars, storeVars, runVars>>

\* the answer to an outstanding request arrives; when it is the one the
\* function is suspended on, the function goes on from there
ReceiveResponse ==
  /\ \E r \in aInFlight, answer \in Answers, found \in BOOLEAN :
       /\ aInFlight' = aInFlight \ {r}
       /\ IF aWaiting /\ r = [site |-> aSite, item |-> aItem, try |-> aTry + 1]
          THEN LET next == afterAnswer(aSite, aTry + 1, answer, found) IN
               /\ aWaiting' = FALSE
               /\ aSite' = next.site
               /\ aTry' = next.try
          ELSE UNCHANGED <<aWaiting, aSite, aTry>>
  /\ UNCHANGED <<aProg, aHasKey, aItems, aItem>>
  /\ UNCHANGED <<resolveVars, matchVars, storeVars, runVars>>

AwaitNext == TakeItem \/ SendRequest \/ ReceiveResponse

SpecAwait == AwaitInit /\ [][AwaitNext]_vars

\* ---- properties of the order of requests

\* C27: a run is sequential: at every point at most one request is
\* outstanding, and while one is outstanding the function is suspended on
\* it, so the next upload, fetch or update is sent only after the answer
\* (a response or an error) has arrived.
C27_OneRequestAtATime ==
  /\ Cardinality(aInFlight) <= 1
  /\ aInFlight # {} => aWaiting

\* the second item's update is outstanding after earlier requests of the
\* same loop were answered
C27_Witness ==
  /\ aProg = "updater"
  /\ aItem = 2
  /\ aInFlight = {[site |-> "put", item |-> 2, try |-> EndpointCount + 1]}
  /\ aWaiting

\* ---- properties of the local asset search

\* the descriptors of the mirror whose title equals the file name after
\* normalization (lower case, extension stripped, hyphens stripped)
exactTitles(filename, mirror) ==
  { i \in 1..Len(mirror) :
      /\ mirror[i].title # <<>>
      /\ localExact(stripExtension(toLowerCase(filename)),
                    stripExtension(toLowerCase(mirror[i].title))) }

\* C28: in the local search, whenever some descriptor's title equals the
\* image's file name after normalization, the asset returned is one with
\* such a title, not one that only matches by overlap of parts, whatever
\* the order of the descriptors.
C28_ExactTitlePreferred ==
  (xProg = "updater" /\ xpc = "getEntry" /\ xLog = <<>>) =>
    LET exact == exactTitles(imageOf(xGroups[xItem]).filename, xMirror) IN
    exact # {} => \E i \in exact : xAsset = xMirror[i].id

\* ---- properties of the two keyword scorers

\* C29: the two keyword scorers agree: over the same ordered record list
\* (the generator's product table) the generator of map-images-simple and
\* matchImageByFilename select the same record for an image, or both select
\* none.
C29_ScorersAgree ==
  ({"filename", "simple"} \subseteq mDone /\ mEntries = productTable) =>
    /\ mFilename.found <=> mSimple.entryId # Null
    /\ mFilename.found => mFilename.entryId = mSimple.entryId

\* ---- properties of the summary

\* C30: for every mapping document the summarize script loads, hand-edited
\* ones included, the printed counts satisfy
\* Matched + Unmatched = Total Images.
C30_CountsAddUp ==
  sSummary.printed => sSummary.matched + sSummary.unmatched = sSummary.total

====
